---- MODULE Spec2Model ----
(***************************************************************************)
(* hshchk: directory-integrity checker.  Model of the reconciliation       *)
(* engine (HashFileProcessor), the directory walker (FileTree), the        *)
(* manifest store (HashFile) and its two wire formats.                     *)
(*                                                                         *)
(* Text is a sequence of one-character strings, so that formatting and     *)
(* parsing of manifest lines are computed character by character.          *)
(***************************************************************************)
EXTENDS Integers, Sequences, FiniteSets, TLC

(***************************************************************************)
(* Bounds of the model.                                                    *)
(***************************************************************************)
\* files (manifests not counted) present under the root when a behaviour starts
MaxFiles == 2
\* departures from the plain scenario in one behaviour, counted together:
\* options given a non-default value, changes made to the directory between
\* two runs, a cancellation, and the executable lying in the working directory
MaxDeviations == 2
\* runs of the program in one behaviour
MaxRuns == 2
\* manifest files present in the root when mode selection alone is explored
MaxManifests == 2
\* options given to new() when the mode selection is explored alone
MaxModeOptions == 3
\* lines of the manifests given to load when it is explored alone
MaxLoadLines == 2
\* bytes of the file, of a read and between two notifications when compute
\* is explored alone
MaxFileSize == 8
MaxBufferSize == 3
MaxBlockSize == 4
\* files the worker meets when the threads of UI::run are explored
MaxUIFiles == 2
\* byte-count notifications the hasher sends for one file in that exploration
MaxBlocks == 1

\* operations applied to a store
MaxOps == 3

(***************************************************************************)
(* Characters and text helpers.                                            *)
(***************************************************************************)
\* std::path::MAIN_SEPARATOR on a Unix host
MAIN_SEPARATOR == "/"

\* replaceable_separator(): the separator of the other host family
replaceable_separator == IF MAIN_SEPARATOR = "/" THEN "\\" ELSE "/"

\* a byte that is not part of any well-formed UTF-8 sequence
InvalidByte == "<ff>"

None == <<>>

Some(x) == <<x>>

IsSome(o) == Len(o) = 1

Unwrap(o) == o[1]

Min(a, b) == IF a < b THEN a ELSE b

\* s[from..] of Rust, 1-based here: the suffix starting at index from
Suffix(s, from) == IF from > Len(s) THEN <<>> ELSE SubSeq(s, from, Len(s))

\* s[..n]: the first n characters
Prefix(s, n) == SubSeq(s, 1, n)

StartsWith(s, p) == Len(p) <= Len(s) /\ SubSeq(s, 1, Len(p)) = p

\* does text s contain pat as a contiguous substring
Contains(s, pat) ==
    \E i \in 1..(Len(s) - Len(pat) + 1) : SubSeq(s, i, i + Len(pat) - 1) = pat

\* str::find(ch): index of the first occurrence of ch, 0 when there is none
Find(s, ch) ==
    IF \E i \in 1..Len(s) : s[i] = ch
    THEN CHOOSE i \in 1..Len(s) : s[i] = ch /\ \A j \in 1..(i - 1) : s[j] # ch
    ELSE 0

\* str::replace(from, to) for one-character patterns
Replace(s, from, to) == [i \in 1..Len(s) |-> IF s[i] = from THEN to ELSE s[i]]

\* str::split(ch): the pieces between occurrences of ch (always at least one)
RECURSIVE Split(_, _)
Split(s, ch) ==
    LET i == Find(s, ch)
    IN  IF i = 0 THEN <<s>>
        ELSE <<Prefix(s, i - 1)>> \o Split(Suffix(s, i + 1), ch)

\* BufRead::lines(): pieces ended by "\n" (a final piece without "\n" counts);
\* the "\r" before the "\n" of a piece is dropped
StripCR(l) == IF Len(l) > 0 /\ l[Len(l)] = "\r" THEN Prefix(l, Len(l) - 1) ELSE l

RECURSIVE Lines(_)
Lines(bytes) ==
    IF bytes = <<>> THEN <<>>
    ELSE LET i == Find(bytes, "\n")
         IN  IF i = 0 THEN <<bytes>>
             ELSE <<StripCR(Prefix(bytes, i - 1))>> \o Lines(Suffix(bytes, i + 1))

RECURSIVE Concat(_)
Concat(ss) == IF ss = <<>> THEN <<>> ELSE Head(ss) \o Concat(Tail(ss))

Digits == <<"0", "1", "2", "3", "4", "5", "6", "7", "8", "9">>

\* u64::to_string(): decimal digits, most significant first
RECURSIVE to_string(_)
to_string(n) ==
    IF n < 10 THEN <<Digits[n + 1]>>
    ELSE to_string(n \div 10) \o <<Digits[(n % 10) + 1]>>

IsDigit(c) == \E d \in 1..10 : Digits[d] = c

DigitValue(c) == (CHOOSE d \in 1..10 : Digits[d] = c) - 1

\* str::parse::<u64>(): None for an empty text or a non-digit character
\* (a leading "+" is accepted by the standard library)
RECURSIVE ParseDigits(_, _)
ParseDigits(s, acc) ==
    IF s = <<>> THEN acc
    ELSE ParseDigits(Tail(s), acc * 10 + DigitValue(Head(s)))

\* u64::MAX in decimal
U64MaxDigits ==
    <<"1", "8", "4", "4", "6", "7", "4", "4", "0", "7",
      "3", "7", "0", "9", "5", "5", "1", "6", "1", "5">>

RECURSIVE StripZeros(_)
StripZeros(s) == IF Len(s) > 1 /\ s[1] = "0" THEN StripZeros(Tail(s)) ELSE s

\* a <= b for digit texts of the same length
RECURSIVE DigitsLE(_, _)
DigitsLE(a, b) ==
    IF a = <<>> THEN TRUE
    ELSE IF DigitValue(Head(a)) # DigitValue(Head(b))
    THEN DigitValue(Head(a)) < DigitValue(Head(b))
    ELSE DigitsLE(Tail(a), Tail(b))

\* the number written by the digits fits in 64 bits (PosOverflow otherwise)
FitsU64(digits) ==
    LET t == StripZeros(digits)
    IN  \/ Len(t) < Len(U64MaxDigits)
        \/ Len(t) = Len(U64MaxDigits) /\ DigitsLE(t, U64MaxDigits)

ParseU64(s) ==
    LET body == IF Len(s) > 1 /\ s[1] = "+" THEN Tail(s) ELSE s
    IN  IF body # <<>> /\ (\A i \in 1..Len(body) : IsDigit(body[i])) /\ FitsU64(body)
        THEN Some(ParseDigits(body, 0))
        ELSE None

UpperLetters == <<"A", "B", "D", "E", "H", "K", "L", "M", "S">>

LowerLetters == <<"a", "b", "d", "e", "h", "k", "l", "m", "s">>

ToLowerChar(c) ==
    IF \E i \in 1..Len(UpperLetters) : UpperLetters[i] = c
    THEN LowerLetters[CHOOSE i \in 1..Len(UpperLetters) : UpperLetters[i] = c]
    ELSE c

ToUpperChar(c) ==
    IF \E i \in 1..Len(LowerLetters) : LowerLetters[i] = c
    THEN UpperLetters[CHOOSE i \in 1..Len(LowerLetters) : LowerLetters[i] = c]
    ELSE c

to_lowercase(s) == [i \in 1..Len(s) |-> ToLowerChar(s[i])]

to_uppercase(s) == [i \in 1..Len(s) |-> ToUpperChar(s[i])]

\* Path::to_str(): None when the name is not well-formed Unicode
to_str(p) == IF \E i \in 1..Len(p) : p[i] = InvalidByte THEN None ELSE Some(p)

(***************************************************************************)
(* Hash algorithms, wire formats and manifest file names.                  *)
(***************************************************************************)
\* enum HashType, in declaration order (the order of HashType::iter())
HashType == <<"MD5", "SHA1", "SHA256", "SHA512", "Blake2b", "Blake2s", "Blake3">>

HashTypes == {HashType[i] : i \in 1..Len(HashType)}

\* IntoStaticStr of HashType: the variant name as text
HashTypeStr(t) ==
    CASE t = "MD5"     -> <<"M", "D", "5">>
      [] t = "SHA1"    -> <<"S", "H", "A", "1">>
      [] t = "SHA256"  -> <<"S", "H", "A", "2", "5", "6">>
      [] t = "SHA512"  -> <<"S", "H", "A", "5", "1", "2">>
      [] t = "Blake2b" -> <<"B", "l", "a", "k", "e", "2", "b">>
      [] t = "Blake2s" -> <<"B", "l", "a", "k", "e", "2", "s">>
      [] t = "Blake3"  -> <<"B", "l", "a", "k", "e", "3">>

\* enum HashFileFormat
HashFileFormat == {"HashCheck", "HashSum"}

HASHCHECK_BASE_FILE_NAME == <<"h", "s", "h", "c", "h", "k">>

HASHSUM_SUFFIX == <<"S", "U", "M", "S">>

get_hashcheck_file_name(hash_type) ==
    HASHCHECK_BASE_FILE_NAME \o <<".">> \o to_lowercase(HashTypeStr(hash_type))

get_hashsum_file_name(hash_type) ==
    to_uppercase(HashTypeStr(hash_type)) \o HASHSUM_SUFFIX

ManifestName(hash_type, format) ==
    IF format = "HashSum" THEN get_hashsum_file_name(hash_type)
    ELSE get_hashcheck_file_name(hash_type)

AllManifestNames == {ManifestName(t, f) : t \in HashTypes, f \in HashFileFormat}

(***************************************************************************)
(* Digest adapter, as far as the engine sees it: the hex digest of the     *)
(* bytes fed to the algorithm.  The digest is modelled as an injective     *)
(* text over hex characters: a tag for the algorithm, then the bytes.      *)
(***************************************************************************)
HexChars == {"0", "1", "2", "3", "4", "5", "6", "7", "8", "9",
             "a", "b", "c", "d", "e", "f"}

HashTag(hash_type) ==
    CASE hash_type = "MD5"     -> "0"
      [] hash_type = "SHA1"    -> "1"
      [] hash_type = "SHA256"  -> "2"
      [] hash_type = "SHA512"  -> "3"
      [] hash_type = "Blake2b" -> "4"
      [] hash_type = "Blake2s" -> "5"
      [] hash_type = "Blake3"  -> "6"

\* hex::encode of the finalized hash of bytes: bytes that are not hex
\* characters (those of a manifest file that is hashed as an ordinary file)
\* are folded to "f"
digest(hash_type, bytes) ==
    <<HashTag(hash_type)>> \o
    [i \in 1..Len(bytes) |-> IF bytes[i] \in HexChars THEN bytes[i] ELSE "f"]

(***************************************************************************)
(* Manifest store (HashFile): a map from path to HashFileEntry.            *)
(***************************************************************************)
MAX_PATH_SIZE == 4095

MAX_HASH_SIZE == 1024

HashFileEntry(file_path, size, binary, dgst) ==
    [file_path |-> file_path, size |-> size, binary |-> binary, digest |-> dgst]

\* The map is a function from path to entry.  Its iteration order is not
\* part of its value: the standard library leaves the order of a HashMap
\* unspecified (it is seeded per map), so an iteration takes any order.
\* HashFile::new
EmptyHashFile == [p \in {} |-> None]

is_empty(hf) == DOMAIN hf = {}

get_entry(hf, file_path) ==
    IF file_path \in DOMAIN hf THEN Some(hf[file_path]) ELSE None

\* variant: an insertion leaves the entry the path already has
add_entry_first_wins(hf, entry) ==
    [p \in (DOMAIN hf) \cup {entry.file_path} |->
        IF p \in DOMAIN hf THEN hf[p] ELSE entry]

remove_entry(hf, file_path) == [p \in (DOMAIN hf) \ {file_path} |-> hf[p]]

\* HashMap::insert: replaces the entry of an equal key
add_entry(hf, entry) ==
    [p \in (DOMAIN hf) \cup {entry.file_path} |->
        IF p = entry.file_path THEN entry ELSE hf[p]]

\* the orders in which an iteration over the keys S can yield them
IterationOrders(S) ==
    {o \in [1..Cardinality(S) -> S] : \A i, j \in 1..Cardinality(S) : o[i] = o[j] => i = j}

\* HashFile::get_file_paths: the keys, in any iteration order
get_file_paths(hf) == IterationOrders(DOMAIN hf)

format_hash_check_entry(entry) ==
    entry.file_path \o <<"|">> \o to_string(Unwrap(entry.size)) \o <<"|">>
        \o entry.digest \o <<"\n">>

format_hash_sum_entry(entry) ==
    entry.digest \o <<" ", "*">> \o entry.file_path \o <<"\n">>

\* Results of parsing one line: an entry, nothing (line skipped), or a panic
Skipped == [kind |-> "skip"]

Panicked == [kind |-> "panic"]

Parsed(entry) == [kind |-> "entry", entry |-> entry]

\* variant: the limits are reached one byte earlier
parse_hash_check_entry_inclusive(line) ==
    LET parts == Split(line, "|")
    IN  IF Len(parts) = 3
        THEN IF Len(parts[1]) >= MAX_PATH_SIZE \/ Len(parts[3]) >= MAX_HASH_SIZE
                  \/ ~IsSome(ParseU64(parts[2]))
             THEN Panicked
             ELSE Parsed(HashFileEntry(parts[1], Some(Unwrap(ParseU64(parts[2]))),
                                       TRUE, to_lowercase(parts[3])))
        ELSE Skipped

parse_hash_check_entry(line) ==
    LET parts == Split(line, "|")
    IN  IF Len(parts) = 3
        THEN IF Len(parts[1]) > MAX_PATH_SIZE \/ Len(parts[3]) > MAX_HASH_SIZE
                  \/ ~IsSome(ParseU64(parts[2]))
             THEN Panicked
             ELSE Parsed(HashFileEntry(parts[1], Some(Unwrap(ParseU64(parts[2]))),
                                       TRUE, to_lowercase(parts[3])))
        ELSE Skipped

parse_hash_sum_entry(line) ==
    LET space_position == Find(line, " ")   \* 1-based
    IN  IF space_position = 0 THEN Skipped
        \* line[space_position + 2..] and as_bytes()[space_position + 1],
        \* 0-based in the source: both need a character after the space
        ELSE IF Len(line) < space_position + 1 THEN Panicked
        ELSE IF Len(Suffix(line, space_position + 2)) > MAX_PATH_SIZE THEN Panicked
        ELSE Parsed(HashFileEntry(Suffix(line, space_position + 2), None,
                                  line[space_position + 1] = "*",
                                  to_lowercase(Prefix(line, space_position - 1))))

\* get_hash_file_format: decided by the first line of the file
get_hash_file_format(bytes) ==
    LET first_line == IF Find(bytes, "\n") = 0 THEN bytes
                      ELSE Prefix(bytes, Find(bytes, "\n"))
    IN  IF Find(first_line, "|") # 0 THEN "HashCheck" ELSE "HashSum"

\* HashFile::load applied to the bytes of the manifest file: Loaded(store
\* after the load), or Panicked
Loaded(hf) == [kind |-> "ok", files |-> hf]

RECURSIVE LoadLines(_, _, _)
LoadLines(hf, lines, format) ==
    IF lines = <<>> THEN Loaded(hf)
    ELSE LET content == Replace(Head(lines), replaceable_separator, MAIN_SEPARATOR)
             r == IF format = "HashCheck" THEN parse_hash_check_entry(content)
                  ELSE parse_hash_sum_entry(content)
         IN  IF r.kind = "panic" THEN Panicked
             ELSE IF r.kind = "skip" THEN LoadLines(hf, Tail(lines), format)
             ELSE LoadLines(add_entry(hf, r.entry), Tail(lines), format)

load(hf, bytes) == LoadLines(hf, Lines(bytes), get_hash_file_format(bytes))

\* HashFile::save: the bytes written when the map is iterated in the given
\* order (a sequence of its keys)
save(hf, hash_file_format, order) ==
    Concat([i \in 1..Len(order) |->
              IF hash_file_format = "HashCheck"
              THEN format_hash_check_entry(hf[order[i]])
              ELSE format_hash_sum_entry(hf[order[i]])])

(***************************************************************************)
(* The directory under check.  A file is named by its path relative to     *)
(* the root; disk maps every name of the universe to the bytes of the      *)
(* file, to NoFile, or to BrokenLink (an entry whose metadata cannot be    *)
(* read).                                                                  *)
(***************************************************************************)
\* the canonicalized root (base_path)
BasePath == <<"/", "r">>

\* file name of the running executable (env::current_exe().file_name())
BinName == <<"a">>

UserPaths == { <<"a">>,                  \* plain file in the root
               <<"d", "/", "a">>,        \* file in a subdirectory
               <<"d", "\\", "a">>,       \* name with the non-host separator
               <<"a", "|", "b">>,        \* name with a pipe
               <<"b", InvalidByte>> }    \* name that is not well-formed Unicode

AllPaths == UserPaths \cup AllManifestNames

NoFile == <<"<none>">>

BrokenLink == <<"<broken>">>

\* content of the files present when a behaviour starts
InitContent == <<"c">>

\* contents a change to the directory can give a file
Contents == { <<"c">>, <<"e">>, <<"c", "e">> }

\* regular expressions given as match or ignore pattern: literals
Patterns == { <<"d">>, <<"r">> }

\* Regex::is_match for a literal pattern: an unanchored search
is_match(regex, text) == Contains(text, regex)

\* base_path.join(relative)
Join(relative) == BasePath \o <<MAIN_SEPARATOR>> \o relative

\* Path::is_file
is_file(d, p) == d[p] # NoFile /\ d[p] # BrokenLink

\* files and directories present under the root
Present(d) == {p \in DOMAIN d : d[p] # NoFile}

\* fs::read_dir of the directory whose relative path (with a trailing
\* separator, empty for the root) is dir: files are named by their relative
\* path, subdirectories by their relative path with a trailing separator
read_dir(d, dir) ==
    LET under == {p \in Present(d) : StartsWith(p, dir) /\ Len(p) > Len(dir)}
        rest(p) == Suffix(p, Len(dir) + 1)
    IN  {p \in under : Find(rest(p), MAIN_SEPARATOR) = 0} \cup
        {dir \o Prefix(rest(p), Find(rest(p), MAIN_SEPARATOR)) :
            p \in {q \in under : Find(rest(q), MAIN_SEPARATOR) # 0}}

\* Path::is_dir of an entry returned by read_dir
is_dir(entry) == entry[Len(entry)] = MAIN_SEPARATOR

(***************************************************************************)
(* HashFileProcessOptions                                                  *)
(***************************************************************************)
DefaultOptions ==
    [hash_file_format |-> None, hash_type |-> None, force_create |-> FALSE,
     report_extra |-> FALSE, size_only |-> FALSE,
     match_pattern |-> None, ignore_pattern |-> None]

OptionsOver(types) ==
    [hash_file_format : {None} \cup {Some(f) : f \in HashFileFormat},
     hash_type : {None} \cup {Some(t) : t \in types},
     force_create : BOOLEAN, report_extra : BOOLEAN, size_only : BOOLEAN,
     match_pattern : {None} \cup {Some(r) : r \in Patterns},
     ignore_pattern : {None} \cup {Some(r) : r \in Patterns}]

\* number of options that differ from Default::default()
OptionsSet(o) ==
    Cardinality({k \in DOMAIN o : o[k] # DefaultOptions[k]})

\* hash types requested in the runs of the engine
RunHashTypes == {"MD5"}

RunOptions == {o \in OptionsOver(RunHashTypes) : OptionsSet(o) <= MaxDeviations}

(***************************************************************************)
(* State                                                                   *)
(***************************************************************************)
VARIABLES
    disk,                 \* the directory: name -> bytes | NoFile | BrokenLink
    work_path_is_file,    \* current_dir()/<exe name> is a file
    bin_in_base_path,     \* current_exe() is a file directly inside the target root
    options,              \* the options the processor was constructed with
    process_type,         \* HashFileProcessor fields ...
    hash_type,
    hash_file_format,
    hash_file_path,
    bin_file_name,
    size_only,
    report_extra,
    match_regex,
    ignore_regex,
    bytes_processed_notification_block_size,  \* threshold kept with the progress sender
    error_occurred,
    files_processed,
    hash_file,
    cancellation_token,   \* is_canceled() of the token given to process
    pc,                   \* position of the worker
    stack,                \* FileTree::traverse: one frame per directory being read
    cur,                  \* the file process_file is hashing
    events,               \* what was sent on the event channels, in order
    result,               \* the HashFileProcessResult returned
    saved,                \* whether this run wrote its manifest (HashFile::save ran)
    visited,              \* files given to process_file in this run
    visited_at_cancel,    \* history: visited when the token was cancelled
    manifest_at_start,    \* the manifest file of the run when process was called
    canceled_at_return,   \* is_canceled() at the moment traverse returned
    prev,                 \* options, process type and result of the previous run
    runs,                 \* runs started so far
    tampers,              \* changes made to the directory so far
    ops,                  \* history: insertions and removals applied to a store
    budget,               \* deviations still allowed in this behaviour
    silent,               \* UI::run: the silent flag
    chan,                 \* UI::run and process_internal: the channels, each with
                          \* its queue and the number of its senders alive
    thread,               \* position of each thread of UI::run
    worker,               \* the worker thread: files done, file being hashed, result
    proxy,                \* locals of the proxy thread of process_internal
    message_loop,         \* locals of the message loop of UI::run
    output,               \* what Output wrote, in order
    sent,                 \* history: events sent to UI::run, completion and others
    seen                  \* history: files whose events the proxy thread received

env_vars == <<disk, work_path_is_file, bin_in_base_path>>

proc_vars == <<options, process_type, hash_type, hash_file_format, hash_file_path,
               bin_file_name, size_only, report_extra, match_regex, ignore_regex,
               bytes_processed_notification_block_size>>

run_vars == <<error_occurred, files_processed, hash_file, events, result, saved,
              visited, visited_at_cancel>>

walk_vars == <<pc, stack, cur, canceled_at_return>>

hist_vars == <<manifest_at_start, prev, runs, tampers, budget, ops>>

ui_vars == <<silent, chan, thread, worker, proxy, message_loop, output, sent, seen>>

engine_vars == <<env_vars, proc_vars, run_vars, walk_vars, hist_vars, cancellation_token>>

vars == <<engine_vars, ui_vars>>

\* UI::run is not in use: the engine is driven directly
UIOff ==
    /\ silent = FALSE
    /\ chan = <<>>
    /\ thread = <<>>
    /\ worker = <<>>
    /\ proxy = <<>>
    /\ message_loop = <<>>
    /\ output = <<>>
    /\ sent = <<>>
    /\ seen = <<>>

NoRun == [options |-> DefaultOptions, process_type |-> "None", result |-> "None"]

\* FileHash: size of a read, and bytes between two notifications
DEFAULT_BUFFER_SIZE == 1048576

DEFAULT_BYTES_PROCESSED_NOTIFICATION_BLOCK_SIZE == 2097152

\* fed_at_cancel is history: the bytes fed when the token was set, if it was
\* set while compute ran
NoCur == [relative |-> <<>>, file_size |-> 0, fed |-> 0, running |-> 0,
          buffer_size |-> 0, notification_block_size |-> 0, sender |-> FALSE,
          fed_at_cancel |-> None]

\* everything but the directory, before a processor is constructed
Fresh ==
    /\ options = DefaultOptions
    /\ process_type = "Create"
    /\ hash_type = "SHA1"
    /\ hash_file_format = None
    /\ hash_file_path = <<>>
    /\ bin_file_name = <<>>
    /\ size_only = FALSE
    /\ report_extra = FALSE
    /\ match_regex = None
    /\ ignore_regex = None
    /\ bytes_processed_notification_block_size = DEFAULT_BYTES_PROCESSED_NOTIFICATION_BLOCK_SIZE
    /\ error_occurred = FALSE
    /\ files_processed = FALSE
    /\ hash_file = EmptyHashFile
    /\ cancellation_token = FALSE
    /\ pc = "idle"
    /\ stack = <<>>
    /\ cur = NoCur
    /\ events = <<>>
    /\ result = "None"
    /\ saved = FALSE
    /\ visited = {}
    /\ visited_at_cancel = {}
    /\ canceled_at_return = FALSE
    /\ ops = <<>>

\* the same, of the next state
FreshNext ==
    /\ options' = DefaultOptions
    /\ process_type' = "Create"
    /\ hash_type' = "SHA1"
    /\ hash_file_format' = None
    /\ hash_file_path' = <<>>
    /\ bin_file_name' = <<>>
    /\ size_only' = FALSE
    /\ report_extra' = FALSE
    /\ match_regex' = None
    /\ ignore_regex' = None
    /\ bytes_processed_notification_block_size' = DEFAULT_BYTES_PROCESSED_NOTIFICATION_BLOCK_SIZE
    /\ error_occurred' = FALSE
    /\ files_processed' = FALSE
    /\ hash_file' = EmptyHashFile
    /\ cancellation_token' = FALSE
    /\ pc' = "idle"
    /\ stack' = <<>>
    /\ cur' = NoCur
    /\ events' = <<>>
    /\ result' = "None"
    /\ saved' = FALSE
    /\ visited' = {}
    /\ visited_at_cancel' = {}
    /\ canceled_at_return' = FALSE

\* directories a behaviour starts from: at most MaxFiles files, no manifest
InitDisks ==
    {[p \in AllPaths |-> IF p \in S THEN InitContent ELSE NoFile] :
        S \in {T \in SUBSET UserPaths : Cardinality(T) <= MaxFiles}}

Init ==
    /\ disk \in InitDisks
    /\ work_path_is_file \in BOOLEAN
    /\ bin_in_base_path \in {b \in BOOLEAN : b => is_file(disk, BinName)}
    /\ Fresh
    /\ manifest_at_start = NoFile
    /\ prev = NoRun
    /\ runs = 0
    /\ tampers = 0
    /\ budget = MaxDeviations - (IF work_path_is_file THEN 1 ELSE 0)
                              - (IF bin_in_base_path THEN 1 ELSE 0)
    /\ UIOff

(***************************************************************************)
(* HashFileProcessor::new: mode selection                                  *)
(***************************************************************************)
hash_file_exists(d, type) ==
    IF is_file(d, get_hashcheck_file_name(type)) THEN Some("HashCheck")
    ELSE IF is_file(d, get_hashsum_file_name(type)) THEN Some("HashSum")
    ELSE None

\* the loop over HashType::iter(), from the i-th variant on
RECURSIVE FirstExisting(_, _)
FirstExisting(d, i) ==
    IF i > Len(HashType) THEN None
    ELSE IF IsSome(hash_file_exists(d, HashType[i]))
         THEN Some(<<HashType[i], Unwrap(hash_file_exists(d, HashType[i]))>>)
         ELSE FirstExisting(d, i + 1)

\* variant: the desired type is not looked at first
get_existing_file_hash_type_in_order(d, desired_hash_type) ==
    FirstExisting(d, 1)

get_existing_file_hash_type(d, desired_hash_type) ==
    IF IsSome(hash_file_exists(d, desired_hash_type))
    THEN Some(<<desired_hash_type, Unwrap(hash_file_exists(d, desired_hash_type))>>)
    ELSE FirstExisting(d, 1)

\* variant: force_create is not looked at
SelectModeUnforced(d, opts) ==
    LET requested == IF IsSome(opts.hash_type) THEN Unwrap(opts.hash_type) ELSE "SHA1"
        existing  == get_existing_file_hash_type(d, requested)
    IN  IF IsSome(existing)
        THEN [process_type |-> "Verify", hash_type |-> Unwrap(existing)[1],
              hash_file_format |-> Some(Unwrap(existing)[2])]
        ELSE [process_type |-> "Create", hash_type |-> requested,
              hash_file_format |-> opts.hash_file_format]

\* the fields new() derives from the options and the directory
SelectMode(d, opts) ==
    LET requested == IF IsSome(opts.hash_type) THEN Unwrap(opts.hash_type) ELSE "SHA1"
        existing  == IF ~opts.force_create
                     THEN get_existing_file_hash_type(d, requested)
                     ELSE None
    IN  IF IsSome(existing)
        THEN [process_type |-> "Verify", hash_type |-> Unwrap(existing)[1],
              hash_file_format |-> Some(Unwrap(existing)[2])]
        ELSE [process_type |-> "Create", hash_type |-> requested,
              hash_file_format |-> opts.hash_file_format]

\* name of the manifest file of a processor
HashFileName(type, format) ==
    IF format = Some("HashSum") THEN get_hashsum_file_name(type)
    ELSE get_hashcheck_file_name(type)

New(opts) ==
    /\ pc = "idle"
    /\ runs < MaxRuns
    /\ OptionsSet(opts) <= budget
    /\ budget' = budget - OptionsSet(opts)
    /\ LET m == SelectMode(disk, opts)
       IN  /\ process_type' = m.process_type
           /\ hash_type' = m.hash_type
           /\ hash_file_format' = m.hash_file_format
           /\ hash_file_path' = Join(HashFileName(m.hash_type, m.hash_file_format))
    /\ options' = opts
    /\ bin_file_name' = IF work_path_is_file THEN BinName ELSE <<>>
    /\ size_only' = opts.size_only
    /\ report_extra' = opts.report_extra
    /\ match_regex' = opts.match_pattern
    /\ ignore_regex' = opts.ignore_pattern
    /\ bytes_processed_notification_block_size' = DEFAULT_BYTES_PROCESSED_NOTIFICATION_BLOCK_SIZE
    /\ error_occurred' = FALSE
    /\ files_processed' = FALSE
    /\ hash_file' = EmptyHashFile
    /\ pc' = "new"
    /\ runs' = runs + 1
    /\ UNCHANGED <<env_vars, cancellation_token, stack, cur, events, result, saved,
                   visited, visited_at_cancel, canceled_at_return, manifest_at_start, prev, tampers,
                   ops>>
    /\ UNCHANGED ui_vars

(***************************************************************************)
(* FileTree::traverse and HashFileProcessor::process_file                  *)
(***************************************************************************)
Frame(d, dir) == [dir |-> dir, todo |-> read_dir(d, dir)]

\* frames whose iterator is exhausted return to their caller
RECURSIVE Unwind(_)
Unwind(stk) ==
    IF stk # <<>> /\ stk[Len(stk)].todo = {} THEN Unwind(Prefix(stk, Len(stk) - 1))
    ELSE stk

\* the relative path of the manifest file of the processor
HashFileRelative == Suffix(hash_file_path, Len(BasePath) + 2)

FileProcessEntry(file_path, state) ==
    [kind |-> "FileProcessEntry", file_path |-> file_path, state |-> state]

FileProgress(file_path, file_size, bytes_processed) ==
    [kind |-> "FileProgress", file_path |-> file_path, file_size |-> file_size,
     bytes_processed |-> bytes_processed]

Event(channel, msg) == [channel |-> channel, msg |-> msg]

\* process_file returns to the walker, whose stack is stk
Return(stk) ==
    /\ stack' = Unwind(stk)
    /\ pc' = IF Unwind(stk) = <<>> THEN "final" ELSE "walk"
    /\ canceled_at_return' =
           IF Unwind(stk) = <<>> THEN cancellation_token ELSE canceled_at_return
    /\ cur' = NoCur

\* variant: after handle_error the walk is given up
HandleErrorStops(stk, file_path, error_state) ==
    /\ error_occurred' = TRUE
    /\ files_processed' = TRUE
    /\ events' = Append(events, Event("error", FileProcessEntry(file_path, error_state)))
    /\ UNCHANGED hash_file
    /\ Return(<<>>)

\* handle_error, then return
HandleError(stk, file_path, error_state) ==
    /\ error_occurred' = TRUE
    /\ files_processed' = TRUE
    /\ events' = Append(events, Event("error", FileProcessEntry(file_path, error_state)))
    /\ UNCHANGED hash_file
    /\ Return(stk)

\* variant: a warning sets the error flag as an error does
HandleWarningFlagged(stk, file_path, warning_state) ==
    /\ events' = Append(events, Event("warning", FileProcessEntry(file_path, warning_state)))
    /\ error_occurred' = TRUE
    /\ UNCHANGED <<files_processed, hash_file>>
    /\ Return(stk)

\* variant: a warning counts the file as processed
HandleWarningCounted(stk, file_path, warning_state) ==
    /\ events' = Append(events, Event("warning", FileProcessEntry(file_path, warning_state)))
    /\ files_processed' = TRUE
    /\ UNCHANGED <<error_occurred, hash_file>>
    /\ Return(stk)

\* handle_warning, then return
HandleWarning(stk, file_path, warning_state) ==
    /\ events' = Append(events, Event("warning", FileProcessEntry(file_path, warning_state)))
    /\ UNCHANGED <<error_occurred, files_processed, hash_file>>
    /\ Return(stk)

\* return without any effect
Skip(stk) ==
    /\ UNCHANGED <<error_occurred, files_processed, hash_file, events>>
    /\ Return(stk)

\* variant: Verify compares the digest with the entry even if size_only
RecordCompared(stk, relative, file_size, dgst, evs) ==
    /\ IF process_type = "Create"
       THEN /\ hash_file' = add_entry(hash_file,
                                HashFileEntry(relative, Some(file_size), TRUE, dgst))
            /\ events' = evs
            /\ error_occurred' = error_occurred
       ELSE LET file_entry == get_entry(hash_file, relative)
            IN  /\ hash_file' = remove_entry(hash_file, relative)
                /\ IF IsSome(file_entry) /\ dgst # Unwrap(file_entry).digest
                   THEN /\ error_occurred' = TRUE
                        /\ events' = Append(evs, Event("error",
                                        FileProcessEntry(relative, "IncorrectHash")))
                   ELSE /\ error_occurred' = error_occurred
                        /\ events' = evs
    /\ files_processed' = TRUE
    /\ Return(stk)

\* variant: Create records no size
RecordUnsized(stk, relative, file_size, dgst, evs) ==
    /\ IF process_type = "Create"
       THEN /\ hash_file' = add_entry(hash_file,
                                HashFileEntry(relative, Some(0), TRUE, dgst))
            /\ events' = evs
            /\ error_occurred' = error_occurred
       ELSE LET file_entry == get_entry(hash_file, relative)
            IN  /\ hash_file' = remove_entry(hash_file, relative)
                /\ IF IsSome(file_entry) /\ ~size_only /\ dgst # Unwrap(file_entry).digest
                   THEN /\ error_occurred' = TRUE
                        /\ events' = Append(evs, Event("error",
                                        FileProcessEntry(relative, "IncorrectHash")))
                   ELSE /\ error_occurred' = error_occurred
                        /\ events' = evs
    /\ files_processed' = TRUE
    /\ Return(stk)

\* variant: Verify does not compare the digest with the entry
RecordUncompared(stk, relative, file_size, dgst, evs) ==
    /\ IF process_type = "Create"
       THEN /\ hash_file' = add_entry(hash_file,
                                HashFileEntry(relative, Some(file_size), TRUE, dgst))
            /\ events' = evs
            /\ error_occurred' = error_occurred
       ELSE /\ hash_file' = remove_entry(hash_file, relative)
            /\ error_occurred' = error_occurred
            /\ events' = evs
    /\ files_processed' = TRUE
    /\ Return(stk)

\* the end of process_file (from the mode test on), with the digest computed
Record(stk, relative, file_size, dgst, evs) ==
    /\ IF process_type = "Create"
       THEN /\ hash_file' = add_entry(hash_file,
                                HashFileEntry(relative, Some(file_size), TRUE, dgst))
            /\ events' = evs
            /\ error_occurred' = error_occurred
       ELSE LET file_entry == get_entry(hash_file, relative)
            IN  /\ hash_file' = remove_entry(hash_file, relative)
                /\ IF IsSome(file_entry) /\ ~size_only /\ dgst # Unwrap(file_entry).digest
                   THEN /\ error_occurred' = TRUE
                        /\ events' = Append(evs, Event("error",
                                        FileProcessEntry(relative, "IncorrectHash")))
                   ELSE /\ error_occurred' = error_occurred
                        /\ events' = evs
    /\ files_processed' = TRUE
    /\ Return(stk)

\* variant: only the match pattern is applied
walk_filter_skips_match_only(file_path_str) ==
    IsSome(match_regex) /\ ~is_match(Unwrap(match_regex), file_path_str)

\* process_file: whether the match and ignore patterns skip the file
walk_filter_skips(file_path_str) ==
    \/ IsSome(match_regex) /\ ~is_match(Unwrap(match_regex), file_path_str)
    \/ IsSome(ignore_regex) /\ is_match(Unwrap(ignore_regex), file_path_str)

\* variant: sizes are never compared
size_mismatch_never(file_entry, file_size) == FALSE

\* process_file: the entry carries a size and the file has another one
size_mismatch(file_entry, file_size) ==
    /\ IsSome(file_entry)
    /\ IsSome(Unwrap(file_entry).size)
    /\ file_size # Unwrap(Unwrap(file_entry).size)

\* variant: the warning is sent whatever report_extra says
report_extra_file_always(stk, relative) ==
    HandleWarning(stk, relative, "Extra")

\* process_file in Verify, on a file the store has no entry for
report_extra_file(stk, relative) ==
    IF report_extra THEN HandleWarning(stk, relative, "Extra") ELSE Skip(stk)

\* process_file up to the call of compute
process_file(stk, relative) ==
    LET file_path  == Join(relative)
        file_entry == get_entry(hash_file, relative)
        file_size  == Len(disk[relative])
    IN  IF file_path = hash_file_path THEN Skip(stk)
        ELSE IF ~IsSome(to_str(file_path))
        THEN HandleWarning(stk, file_path, "InvalidUnicodeFileName")
        ELSE IF walk_filter_skips(Unwrap(to_str(file_path)))
        THEN Skip(stk)
        ELSE IF disk[relative] = BrokenLink
        THEN HandleError(stk, relative, "Error")
        ELSE IF size_mismatch(file_entry, file_size)
        THEN HandleError(stk, relative, "IncorrectSize")
        ELSE IF ~IsSome(file_entry) /\ relative = bin_file_name
        THEN Skip(stk)
        ELSE IF ~IsSome(file_entry) /\ process_type = "Verify"
        THEN report_extra_file(stk, relative)
        ELSE IF ~(size_only /\ process_type = "Verify")
        THEN /\ events' = Append(events, Event("progress",
                              FileProgress(relative, file_size, 0)))
             /\ cur' = [relative |-> relative, file_size |-> file_size, fed |-> 0,
                      running |-> 0,
                      buffer_size |-> DEFAULT_BUFFER_SIZE,
                      notification_block_size |->
                          DEFAULT_BYTES_PROCESSED_NOTIFICATION_BLOCK_SIZE,
                      sender |-> TRUE,
                      fed_at_cancel |-> None]
             /\ pc' = "hash"
             /\ stack' = stk
             /\ UNCHANGED <<error_occurred, files_processed, hash_file,
                            canceled_at_return>>
        ELSE Record(stk, relative, file_size, <<>>, events)

\* one iteration of the loop of traverse
Traverse ==
    /\ pc = "walk"
    /\ LET top == stack[Len(stack)]
       IN  IF cancellation_token
           THEN \* break, in this directory and then in every caller
                /\ stack' = <<>>
                /\ pc' = "final"
                /\ canceled_at_return' = TRUE
                /\ UNCHANGED <<cur, run_vars>>
           ELSE \E entry \in top.todo :
                  LET stk == [stack EXCEPT ![Len(stack)].todo = @ \ {entry}]
                  IN  IF is_dir(entry)
                      THEN /\ stack' = Unwind(Append(stk, Frame(disk, entry)))
                           /\ pc' = "walk"
                           /\ UNCHANGED <<cur, run_vars, canceled_at_return>>
                      ELSE /\ visited' = visited \cup {entry}
                           /\ UNCHANGED visited_at_cancel
                           /\ process_file(stk, entry)
                           /\ UNCHANGED <<result, saved>>
    /\ UNCHANGED <<env_vars, proc_vars, hist_vars, cancellation_token>>
    /\ UNCHANGED ui_vars

\* The same loop in two steps, for the properties about the moment the token
\* is set: the test of the token at the head of an iteration, then the entry.

\* variant: the loop never tests the token
TraverseTestBlind ==
    /\ pc = "walk"
    /\ pc' = "entry"
    /\ UNCHANGED <<stack, cur, canceled_at_return, run_vars>>
    /\ UNCHANGED <<env_vars, proc_vars, hist_vars, cancellation_token>>
    /\ UNCHANGED ui_vars

\* the test at the head of an iteration: break leaves the loop of this
\* directory, and the caller goes on with its own loop
TraverseTest ==
    /\ pc = "walk"
    /\ IF cancellation_token
       THEN LET stk == Unwind(Prefix(stack, Len(stack) - 1))
            IN  /\ stack' = stk
                /\ pc' = IF stk = <<>> THEN "final" ELSE "walk"
                /\ canceled_at_return' = IF stk = <<>> THEN TRUE ELSE canceled_at_return
       ELSE /\ pc' = "entry"
            /\ UNCHANGED <<stack, canceled_at_return>>
    /\ UNCHANGED <<cur, run_vars>>
    /\ UNCHANGED <<env_vars, proc_vars, hist_vars, cancellation_token>>
    /\ UNCHANGED ui_vars

\* the rest of the iteration: the entry is a directory or a file
TraverseEntry ==
    /\ pc = "entry"
    /\ \E entry \in stack[Len(stack)].todo :
          LET stk == [stack EXCEPT ![Len(stack)].todo = @ \ {entry}]
          IN  IF is_dir(entry)
              THEN /\ stack' = Unwind(Append(stk, Frame(disk, entry)))
                   /\ pc' = "walk"
                   /\ UNCHANGED <<cur, run_vars, canceled_at_return>>
              ELSE /\ visited' = visited \cup {entry}
                   /\ UNCHANGED visited_at_cancel
                   /\ process_file(stk, entry)
                   /\ UNCHANGED <<result, saved>>
    /\ UNCHANGED <<env_vars, proc_vars, hist_vars, cancellation_token>>
    /\ UNCHANGED ui_vars

(***************************************************************************)
(* BlockHasher::compute, driven by process_file                            *)
(***************************************************************************)
HashProgress(bytes_processed) ==
    [kind |-> "HashProgress", bytes_processed |-> bytes_processed]

\* BlockHasher::read: the bytes the next read returns
bytes_read == Min(cur.buffer_size, cur.file_size - cur.fed)

\* variant: the accumulator starts again from zero after a notification
UpdateReset ==
    LET counted == cur.sender /\ cur.notification_block_size > 0
        running == IF counted THEN cur.running + bytes_read ELSE cur.running
        notify == counted /\ running >= cur.notification_block_size
    IN  /\ cur' = [cur EXCEPT !.fed = @ + bytes_read,
                              !.running = IF notify THEN 0 ELSE running]
        /\ events' = IF notify
                     THEN Append(events, Event("hash_progress",
                                               HashProgress(cur.fed + bytes_read)))
                     ELSE events

\* compute, after a read that returned bytes: update, then the notification
\* if a sender is attached and the accumulator has reached the block size
Update ==
    LET counted == cur.sender /\ cur.notification_block_size > 0
        running == IF counted THEN cur.running + bytes_read ELSE cur.running
        notify == counted /\ running >= cur.notification_block_size
    IN  /\ cur' = [cur EXCEPT !.fed = @ + bytes_read,
                              !.running = IF notify
                                          THEN running - cur.notification_block_size
                                          ELSE running]
        /\ events' = IF notify
                     THEN Append(events, Event("hash_progress",
                                               HashProgress(cur.fed + bytes_read)))
                     ELSE events

\* one iteration of the loop of compute, on the file process_file is hashing
Compute ==
    /\ pc = "hash"
    /\ IF cancellation_token \/ bytes_read = 0
       THEN \* break
            /\ pc' = "hashed"
            /\ UNCHANGED <<cur, events>>
       ELSE /\ pc' = "hash"
            /\ Update
    /\ UNCHANGED <<env_vars, proc_vars, hist_vars, cancellation_token, stack,
                   canceled_at_return, error_occurred, files_processed, hash_file,
                   result, saved, visited,
                   visited_at_cancel>>
    /\ UNCHANGED ui_vars

\* variant: the token is tested only while nothing has been fed yet
ComputeTestOnce ==
    /\ pc = "hash"
    /\ pc' = IF cancellation_token /\ cur.fed = 0 THEN "hashed" ELSE "read"
    /\ UNCHANGED <<env_vars, proc_vars, hist_vars, cancellation_token, stack, cur, events,
                   canceled_at_return, error_occurred, files_processed, hash_file,
                   result, saved, visited,
                   visited_at_cancel>>
    /\ UNCHANGED ui_vars

\* the same iteration in two steps, for the interleavings with the thread
\* that cancels the token: first the test of the token
ComputeTest ==
    /\ pc = "hash"
    /\ pc' = IF cancellation_token THEN "hashed" ELSE "read"
    /\ UNCHANGED <<env_vars, proc_vars, hist_vars, cancellation_token, stack, cur, events,
                   canceled_at_return, error_occurred, files_processed, hash_file,
                   result, saved, visited,
                   visited_at_cancel>>
    /\ UNCHANGED ui_vars

\* then the read, and the update if it returned bytes
ComputeRead ==
    /\ pc = "read"
    /\ IF bytes_read = 0
       THEN /\ pc' = "hashed"
            /\ UNCHANGED <<cur, events>>
       ELSE /\ pc' = "hash"
            /\ Update
    /\ UNCHANGED <<env_vars, proc_vars, hist_vars, cancellation_token, stack,
                   canceled_at_return, error_occurred, files_processed, hash_file,
                   result, saved, visited,
                   visited_at_cancel>>
    /\ UNCHANGED ui_vars

\* variant: process_file does not test the token after compute
HashedRecorded ==
    /\ pc = "hashed"
    /\ LET dgst == digest(hash_type, Prefix(disk[cur.relative], cur.fed))
           evs  == Append(events, Event("progress",
                       FileProgress(cur.relative, cur.file_size, cur.file_size)))
       IN  Record(stack, cur.relative, cur.file_size, dgst, evs)
    /\ UNCHANGED <<env_vars, proc_vars, hist_vars, cancellation_token, result, saved,
                   visited,
                   visited_at_cancel>>
    /\ UNCHANGED ui_vars

\* process_file from the return of compute on
Hashed ==
    /\ pc = "hashed"
    /\ LET dgst == digest(hash_type, Prefix(disk[cur.relative], cur.fed))
           evs  == Append(events, Event("progress",
                       FileProgress(cur.relative, cur.file_size, cur.file_size)))
       IN  IF cancellation_token
           THEN /\ events' = evs
                /\ UNCHANGED <<error_occurred, files_processed, hash_file>>
                /\ Return(stack)
           ELSE Record(stack, cur.relative, cur.file_size, dgst, evs)
    /\ UNCHANGED <<env_vars, proc_vars, hist_vars, cancellation_token, result, saved,
                   visited,
                   visited_at_cancel>>
    /\ UNCHANGED ui_vars

(***************************************************************************)
(* HashFileProcessor::process_with_cancellation_token                      *)
(***************************************************************************)
\* process_internal up to the call of traverse
ProcessStart ==
    /\ pc = "new"
    /\ LET loaded == IF process_type = "Verify"
                     THEN load(hash_file, disk[HashFileRelative])
                     ELSE Loaded(hash_file)
           stk == Unwind(<<Frame(disk, <<>>)>>)
       IN  IF loaded.kind = "panic"
           THEN /\ pc' = "panic"
                /\ UNCHANGED <<hash_file, stack, canceled_at_return>>
           ELSE /\ hash_file' = loaded.files
                /\ stack' = stk
                /\ pc' = IF stk = <<>> THEN "final" ELSE "walk"
                /\ canceled_at_return' = FALSE
    /\ cancellation_token' = FALSE
    /\ events' = <<>>
    /\ result' = "None"
    /\ saved' = FALSE
    /\ visited' = {}
    /\ UNCHANGED visited_at_cancel
    /\ manifest_at_start' = disk[HashFileRelative]
    /\ UNCHANGED <<env_vars, proc_vars, error_occurred, files_processed, cur, prev,
                   runs, tampers, budget, ops>>
    /\ UNCHANGED ui_vars

\* process_internal, finalization of Verify: whether the match and ignore
\* patterns skip a path that is still in the store
missing_filter_skips(file_path) ==
    \/ IsSome(match_regex) /\ ~is_match(Unwrap(match_regex), file_path)
    \/ IsSome(ignore_regex) /\ is_match(Unwrap(ignore_regex), file_path)

\* the Missing events of the finalization of Verify, for the paths in the
\* order the store lists them
RECURSIVE MissingEvents(_)
MissingEvents(paths) ==
    IF paths = <<>> THEN <<>>
    ELSE IF missing_filter_skips(Head(paths)) THEN MissingEvents(Tail(paths))
    ELSE <<Event("error", FileProcessEntry(Head(paths), "Missing"))>>
             \o MissingEvents(Tail(paths))

\* how the run ends: the result, whether the manifest is written, the Missing
\* events sent (handle_error sets both flags for each)
Outcome(res, write, missing) == [result |-> res, write |-> write, missing |-> missing]

\* variant: the error flag is looked at before the token
process_result_error_first(canceled, order) ==
    IF error_occurred THEN Outcome("Error", FALSE, <<>>)
    ELSE IF canceled THEN Outcome("Canceled", FALSE, <<>>)
    ELSE IF process_type = "Create"
    THEN IF is_empty(hash_file) THEN Outcome("NoFilesProcessed", FALSE, <<>>)
         ELSE Outcome(IF files_processed THEN "Success" ELSE "NoFilesProcessed",
                      TRUE, <<>>)
    ELSE IF ~is_empty(hash_file) /\ MissingEvents(order) # <<>>
    THEN Outcome("Error", FALSE, MissingEvents(order))
    ELSE Outcome(IF files_processed THEN "Success" ELSE "NoFilesProcessed",
                 FALSE, <<>>)

\* variant: Create saves the store without looking whether it is empty
process_result_save_empty(canceled, order) ==
    IF canceled THEN Outcome("Canceled", FALSE, <<>>)
    ELSE IF error_occurred THEN Outcome("Error", FALSE, <<>>)
    ELSE IF process_type = "Create"
    THEN Outcome(IF files_processed THEN "Success" ELSE "NoFilesProcessed", TRUE, <<>>)
    ELSE IF ~is_empty(hash_file) /\ MissingEvents(order) # <<>>
    THEN Outcome("Error", FALSE, MissingEvents(order))
    ELSE Outcome(IF files_processed THEN "Success" ELSE "NoFilesProcessed",
                 FALSE, <<>>)

\* variant: a Verify run that found nothing wrong writes its store back
process_result_verify_saves(canceled, order) ==
    IF canceled THEN Outcome("Canceled", FALSE, <<>>)
    ELSE IF error_occurred THEN Outcome("Error", FALSE, <<>>)
    ELSE IF process_type = "Create"
    THEN IF is_empty(hash_file) THEN Outcome("NoFilesProcessed", FALSE, <<>>)
         ELSE Outcome(IF files_processed THEN "Success" ELSE "NoFilesProcessed",
                      TRUE, <<>>)
    ELSE IF ~is_empty(hash_file) /\ MissingEvents(order) # <<>>
    THEN Outcome("Error", FALSE, MissingEvents(order))
    ELSE Outcome(IF files_processed THEN "Success" ELSE "NoFilesProcessed",
                 TRUE, <<>>)

\* process_internal after traverse has returned; order is the iteration order
\* of the store
process_result(canceled, order) ==
    IF canceled THEN Outcome("Canceled", FALSE, <<>>)
    ELSE IF error_occurred THEN Outcome("Error", FALSE, <<>>)
    ELSE IF process_type = "Create"
    THEN IF is_empty(hash_file) THEN Outcome("NoFilesProcessed", FALSE, <<>>)
         ELSE Outcome(IF files_processed THEN "Success" ELSE "NoFilesProcessed",
                      TRUE, <<>>)
    ELSE IF ~is_empty(hash_file) /\ MissingEvents(order) # <<>>
    THEN Outcome("Error", FALSE, MissingEvents(order))
    ELSE Outcome(IF files_processed THEN "Success" ELSE "NoFilesProcessed",
                 FALSE, <<>>)

\* process_internal after traverse has returned, and the completion event of
\* process_with_cancellation_token
Finalize ==
    /\ pc = "final"
    /\ \E order \in get_file_paths(hash_file) :
         LET out == process_result(cancellation_token, order)
             format == IF IsSome(hash_file_format) THEN Unwrap(hash_file_format)
                       ELSE "HashCheck"
         IN  /\ result' = out.result
             /\ events' = Append(events \o out.missing, Event("complete", out.result))
             /\ error_occurred' = (error_occurred \/ out.missing # <<>>)
             /\ files_processed' = (files_processed \/ out.missing # <<>>)
             /\ saved' = out.write
             /\ disk' = IF out.write
                        THEN [disk EXCEPT ![HashFileRelative] = save(hash_file, format, order)]
                        ELSE disk
    /\ pc' = "done"
    /\ UNCHANGED <<work_path_is_file, bin_in_base_path, proc_vars, hist_vars, cancellation_token, stack,
                   cur, canceled_at_return, hash_file, visited,
                   visited_at_cancel>>
    /\ UNCHANGED ui_vars

\* the token is cancelled from another thread (Ctrl-C)
Cancel ==
    /\ pc \in {"walk", "entry", "hash", "read", "hashed", "final"}
    /\ ~cancellation_token
    /\ budget >= 1
    /\ cancellation_token' = TRUE
    /\ budget' = budget - 1
    /\ visited_at_cancel' = visited
    /\ cur' = IF pc \in {"hash", "read"}
              THEN [cur EXCEPT !.fed_at_cancel = Some(cur.fed)]
              ELSE cur
    /\ UNCHANGED <<env_vars, proc_vars, error_occurred, files_processed, hash_file,
                   events, result, saved, visited, pc, stack, canceled_at_return,
                   manifest_at_start, prev, runs, tampers, ops>>
    /\ UNCHANGED ui_vars

\* the process ends; nothing but the directory outlives it
Exit ==
    /\ pc \in {"done", "panic"}
    /\ runs < MaxRuns
    /\ prev' = [options |-> options, process_type |-> process_type, result |-> result]
    /\ FreshNext
    /\ UNCHANGED <<env_vars, manifest_at_start, runs, tampers, budget, ops>>
    /\ UNCHANGED ui_vars

\* between two runs somebody writes, replaces or deletes a file
Tamper(p, content) ==
    /\ pc = "idle"
    /\ runs >= 1
    /\ budget >= 1
    /\ disk[p] # content
    /\ disk' = [disk EXCEPT ![p] = content]
    /\ tampers' = tampers + 1
    /\ budget' = budget - 1
    /\ UNCHANGED <<work_path_is_file, bin_in_base_path, proc_vars, run_vars, walk_vars,
                   manifest_at_start, prev, runs, ops, cancellation_token>>
    /\ UNCHANGED ui_vars

\* thresholds a caller gives with the progress sender: every byte
NotificationBlockSizes == {1}

\* set_progress_event_sender_with_bytes_processed_notification_block_size,
\* called between new and process with a threshold of the caller's choice
SetProgressEventSender(block_size) ==
    /\ pc = "new"
    /\ budget >= 1
    /\ bytes_processed_notification_block_size # block_size
    /\ bytes_processed_notification_block_size' = block_size
    /\ budget' = budget - 1
    /\ UNCHANGED <<env_vars, options, process_type, hash_type, hash_file_format,
                   hash_file_path, bin_file_name, size_only, report_extra, match_regex,
                   ignore_regex, run_vars, walk_vars, manifest_at_start, prev, runs,
                   tampers, ops, cancellation_token>>
    /\ UNCHANGED ui_vars

Next ==
    \/ \E opts \in RunOptions : New(opts)
    \/ \E block_size \in NotificationBlockSizes : SetProgressEventSender(block_size)
    \/ ProcessStart
    \/ Traverse
    \/ Compute
    \/ Hashed
    \/ Finalize
    \/ Cancel
    \/ Exit
    \/ \E p \in UserPaths, content \in Contents \cup {NoFile, BrokenLink} :
          Tamper(p, content)

Spec == Init /\ [][Next]_vars

\* one run, the loop of traverse taken in two steps
NextWalk ==
    \/ \E opts \in RunOptions : New(opts)
    \/ ProcessStart
    \/ TraverseTest
    \/ TraverseEntry
    \/ Compute
    \/ Hashed
    \/ Finalize
    \/ Cancel

SpecWalk == Init /\ [][NextWalk]_vars

\* runs over a directory that holds one file and the manifest an earlier
\* Create run recorded from it, in either format; the file may have changed
\* since
RecordedManifest(format) ==
    LET entry == HashFileEntry(<<"a">>, Some(Len(InitContent)), TRUE,
                               digest("SHA1", InitContent))
    IN  save(add_entry(EmptyHashFile, entry), format, <<entry.file_path>>)

VerifyDisks ==
    {[p \in AllPaths |->
         IF p = <<"a">> THEN c
         ELSE IF p = ManifestName("SHA1", format) THEN RecordedManifest(format)
         ELSE NoFile] :
        c \in Contents, format \in HashFileFormat}

InitVerify ==
    /\ disk \in VerifyDisks
    /\ work_path_is_file = FALSE
    /\ bin_in_base_path = FALSE
    /\ Fresh
    /\ manifest_at_start = NoFile
    /\ prev = NoRun
    /\ runs = 0
    /\ tampers = 0
    /\ budget = 1
    /\ UIOff

SpecVerify == InitVerify /\ [][Next]_vars


(***************************************************************************)
(* Mode selection alone: new() over directories that hold manifests of any *)
(* supported algorithm, under either name                                  *)
(***************************************************************************)
\* options that take part in the selection
ModeOptions ==
    {o \in OptionsOver(HashTypes) :
        /\ ~o.report_extra
        /\ ~o.size_only
        /\ o.match_pattern = None
        /\ o.ignore_pattern = None}

\* directories with at most MaxManifests manifest files and one plain file
ModeDisks ==
    {[p \in AllPaths |-> IF p \in S \/ p = <<"a">> THEN InitContent ELSE NoFile] :
        S \in {T \in SUBSET AllManifestNames : Cardinality(T) <= MaxManifests}}

InitMode ==
    /\ disk \in ModeDisks
    /\ work_path_is_file \in BOOLEAN
    /\ bin_in_base_path = FALSE
    /\ Fresh
    /\ manifest_at_start = NoFile
    /\ prev = NoRun
    /\ runs = 0
    /\ tampers = 0
    /\ budget = MaxModeOptions
    /\ UIOff

NextMode == \E opts \in ModeOptions : New(opts)

SpecMode == InitMode /\ [][NextMode]_vars

(***************************************************************************)
(* HashFile::load explored alone: a processor is constructed over a        *)
(* directory that holds one manifest file of a few lines, and the run      *)
(* starts, which loads the file.                                           *)
(***************************************************************************)
\* lines a manifest file can hold
SampleLines ==
    { <<"a", "|", "1", "|", "A", "B">>,             \* three fields, digest in upper case
      <<"d", "\\", "a", "|", "1", "0", "|", "a", "b">>,   \* non-host separator in the path
      <<"a", "|", "2", "|", "a", "b">>,             \* the path a again
      <<"a", "|", "b">>,                            \* two fields
      <<"a", "|", "x", "|", "a", "b">>,             \* size that is not a number
      <<"A", "B", " ", "*", "a">>,                  \* digest, space, asterisk, path
      <<"a", "b", " ", " ", "d", "\\", "a">>,       \* digest, two spaces, path
      <<"a", "b">>,                                 \* no space
      <<"a", "b", " ">>,                            \* nothing after the space
      <<"a", "b", " ", "*">>,                       \* nothing after the marker
      <<>> }                                        \* empty line

\* a line with its end, LF or CRLF
EndedLines == {l \o e : l \in SampleLines, e \in {<<"\n">>, <<"\r", "\n">>}}

\* files of at most MaxLoadLines lines, the last one with or without its end
LoadManifests ==
    {Concat(pre) \o last :
        pre \in UNION {[1..n -> EndedLines] : n \in 0..(MaxLoadLines - 1)},
        last \in SampleLines \cup EndedLines}

\* a text of n bytes
Long(n) == [i \in 1..n |-> "a"]

\* a line of three fields
CheckLine(path, size, dgst) == path \o <<"|">> \o size \o <<"|">> \o dgst

\* files of one line at the limits of parse_hash_check_entry, or with a size
\* field at the limits of u64::parse
LimitManifests ==
    { CheckLine(Long(MAX_PATH_SIZE), <<"1">>, Long(MAX_HASH_SIZE)),
      CheckLine(Long(MAX_PATH_SIZE + 1), <<"1">>, <<"a", "b">>),
      CheckLine(<<"a">>, <<"1">>, Long(MAX_HASH_SIZE + 1)),
      CheckLine(<<"a">>, <<"+", "1">>, <<"a", "b">>),
      CheckLine(<<"a">>, <<"-", "1">>, <<"a", "b">>),
      CheckLine(<<"a">>, <<>>, <<"a", "b">>),
      CheckLine(<<"a">>, <<"1", " ">>, <<"a", "b">>),
      CheckLine(<<"a">>, [U64MaxDigits EXCEPT ![20] = "6"], <<"a", "b">>) }

InitLoad ==
    /\ disk \in {[p \in AllPaths |->
                    IF p = ManifestName("SHA1", "HashCheck") THEN m ELSE NoFile] :
                 m \in LoadManifests \cup LimitManifests}
    /\ work_path_is_file = FALSE
    /\ bin_in_base_path = FALSE
    /\ Fresh
    /\ manifest_at_start = NoFile
    /\ prev = NoRun
    /\ runs = 0
    /\ tampers = 0
    /\ budget = 0
    /\ UIOff

NextLoad == New(DefaultOptions) \/ ProcessStart

SpecLoad == InitLoad /\ [][NextLoad]_vars

(***************************************************************************)
(* BlockHasher::compute explored alone: a Create run has reached the one   *)
(* file of the directory and calls compute on a hasher with some buffer    *)
(* size and notification block size, with or without a sender; the token   *)
(* can be cancelled between any two steps.                                 *)
(***************************************************************************)
InitHash ==
    /\ \E n \in 0..MaxFileSize :
          disk = [p \in AllPaths |-> IF p = <<"a">> THEN Long(n) ELSE NoFile]
    /\ work_path_is_file = FALSE
    /\ bin_in_base_path = FALSE
    /\ options = DefaultOptions
    /\ process_type = "Create"
    /\ hash_type = "SHA1"
    /\ hash_file_format = None
    /\ hash_file_path = Join(HashFileName("SHA1", None))
    /\ bin_file_name = <<>>
    /\ size_only = FALSE
    /\ report_extra = FALSE
    /\ match_regex = None
    /\ ignore_regex = None
    /\ bytes_processed_notification_block_size = DEFAULT_BYTES_PROCESSED_NOTIFICATION_BLOCK_SIZE
    /\ error_occurred = FALSE
    /\ files_processed = FALSE
    /\ hash_file = EmptyHashFile
    /\ cancellation_token = FALSE
    /\ pc = "hash"
    /\ stack = <<>>
    /\ \E b \in 1..MaxBufferSize, t \in 0..MaxBlockSize, sender \in BOOLEAN :
          cur = [relative |-> <<"a">>, file_size |-> Len(disk[<<"a">>]), fed |-> 0,
                 running |-> 0, buffer_size |-> b,
                 notification_block_size |-> IF sender THEN t ELSE 0,
                 sender |-> sender,
                 fed_at_cancel |-> None]
    /\ events = <<Event("progress", FileProgress(<<"a">>, Len(disk[<<"a">>]), 0))>>
    /\ result = "None"
    /\ saved = FALSE
    /\ visited = {<<"a">>}
    /\ visited_at_cancel = {}
    /\ canceled_at_return = FALSE
    /\ ops = <<>>
    /\ manifest_at_start = NoFile
    /\ prev = NoRun
    /\ runs = 1
    /\ tampers = 0
    /\ budget = 1
    /\ UIOff

NextHash == ComputeTest \/ ComputeRead \/ Hashed \/ Cancel

SpecHash == InitHash /\ [][NextHash]_vars

(***************************************************************************)
(* HashFile alone: insertions, removals and loads applied to one store, as *)
(* the unit tests of the store do.                                         *)
(***************************************************************************)
StorePaths == {<<"a">>, <<"b">>}

StoreDigests == {<<"a", "a">>, <<"b", "b">>}

\* entries as Create makes them
StoreEntries ==
    {HashFileEntry(p, Some(1), TRUE, d) : p \in StorePaths, d \in StoreDigests}

\* the entries of the lines of a file to load, in the order of the lines;
\* the same path may come twice
StoreFiles ==
    {<<e>> : e \in StoreEntries} \cup {<<e, f>> : e, f \in StoreEntries}

Inserted(entry) == [op |-> "add", entry |-> entry]

Removed(file_path) == [op |-> "remove", file_path |-> file_path]

InitStore ==
    /\ disk = [p \in AllPaths |-> NoFile]
    /\ work_path_is_file = FALSE
    /\ bin_in_base_path = FALSE
    /\ Fresh
    /\ manifest_at_start = NoFile
    /\ prev = NoRun
    /\ runs = 0
    /\ tampers = 0
    /\ budget = 0
    /\ UIOff

StoreFrame ==
    /\ UNCHANGED <<env_vars, proc_vars, walk_vars, cancellation_token, error_occurred,
                   files_processed, events, result, saved, visited, visited_at_cancel,
                   manifest_at_start, prev, runs, tampers, budget>>
    /\ UNCHANGED ui_vars

StoreAdd(entry) ==
    /\ Len(ops) < MaxOps
    /\ hash_file' = add_entry(hash_file, entry)
    /\ ops' = Append(ops, Inserted(entry))
    /\ StoreFrame

StoreRemove(file_path) ==
    /\ Len(ops) < MaxOps
    /\ hash_file' = remove_entry(hash_file, file_path)
    /\ ops' = Append(ops, Removed(file_path))
    /\ StoreFrame

\* load of the file whose lines are those of the entries of file
StoreLoad(file) ==
    /\ Len(ops) + Len(file) <= MaxOps
    /\ LET bytes  == Concat([i \in 1..Len(file) |-> format_hash_check_entry(file[i])])
           loaded == load(hash_file, bytes)
       IN  /\ loaded.kind = "ok"
           /\ hash_file' = loaded.files
    /\ ops' = ops \o [i \in 1..Len(file) |-> Inserted(file[i])]
    /\ StoreFrame

NextStore ==
    \/ \E entry \in StoreEntries : StoreAdd(entry)
    \/ \E file_path \in StorePaths : StoreRemove(file_path)
    \/ \E file \in StoreFiles : StoreLoad(file)

SpecStore == InitStore /\ [][NextStore]_vars

(***************************************************************************)
(* Vocabulary of the properties                                            *)
(***************************************************************************)
\* a run is under way or has returned
Running == pc \in {"walk", "hash", "hashed", "final", "done"}

\* the store as load built it when the run started
Tracked ==
    IF Running /\ process_type = "Verify"
    THEN load(EmptyHashFile, manifest_at_start).files
    ELSE EmptyHashFile

\* positions in events of the messages of a channel that name the file p
EventsAbout(channel, p) ==
    {i \in DOMAIN events :
        /\ events[i].channel = channel
        /\ events[i].msg.file_path \in {p, Join(p)}}

\* positions in events of the message that reports state for the file p
Reports(channel, p, state) ==
    {i \in DOMAIN events :
        /\ events[i].channel = channel
        /\ events[i].msg = FileProcessEntry(p, state)}

\* positions in events of every error or warning message
Anomalies == {i \in DOMAIN events : events[i].channel \in {"error", "warning"}}

\* the file p is absent from the directory
Absent(p) == p \notin DOMAIN disk \/ disk[p] = NoFile

\* the options of the run exclude the text: a match pattern is given and
\* does not match it, or an ignore pattern is given and matches it
Excludes(text) ==
    \/ IsSome(options.match_pattern) /\ ~is_match(Unwrap(options.match_pattern), text)
    \/ IsSome(options.ignore_pattern) /\ is_match(Unwrap(options.ignore_pattern), text)

\* the run has returned and its token was never cancelled
ReturnedUncancelled == pc = "done" /\ ~cancellation_token

(***************************************************************************)
(* Properties                                                              *)
(***************************************************************************)
\* C1: in every Verify run that is not cancelled, each manifest entry whose
\* file is absent from disk and that passes the match and ignore filters
\* produces exactly one Missing error event, and the result is Error,
\* whatever other anomalies were recorded for other files in the walk.
C1_DetectionCompleteness ==
    (ReturnedUncancelled /\ process_type = "Verify") =>
        \A p \in DOMAIN Tracked :
            (Absent(p) /\ ~Excludes(p)) =>
                /\ Cardinality(Reports("error", p, "Missing")) = 1
                /\ result = "Error"

\* C2: a Create run that returned Success, followed by a Verify run with the
\* same options over the unmodified files, returns Success and sends no
\* error and no warning event, whatever the wire format and the names of the
\* files the Create run accepted.
C2_RoundTrip ==
    (/\ ReturnedUncancelled
     /\ process_type = "Verify"
     /\ prev.process_type = "Create"
     /\ prev.result = "Success"
     /\ prev.options = options
     /\ tampers = 0
     /\ \A p \in UserPaths : ~Absent(p) => IsSome(to_str(p)))
        => (result = "Success" /\ Anomalies = {})

\* C3: if the token is cancelled before the walk returns, the run returns
\* Canceled, the manifest file is neither created nor modified, and no
\* Missing event is sent, even if errors were recorded earlier in the walk.
C3_CancellationOutcome ==
    (pc = "done" /\ canceled_at_return) =>
        /\ result = "Canceled"
        /\ events[Len(events)] = Event("complete", "Canceled")
        /\ ~saved
        /\ disk[HashFileRelative] = manifest_at_start
        /\ \A p \in AllPaths : Reports("error", p, "Missing") = {}

\* a cancelled Verify run returns after an error was recorded in the walk
\* and with entries left in the store
C3_Witness ==
    /\ pc = "done"
    /\ canceled_at_return
    /\ process_type = "Verify"
    /\ error_occurred
    /\ ~is_empty(hash_file)


\* the file p is tracked, can be read, has the size its entry carries (or the
\* entry carries none) and another digest than its entry
ContentDiffers(p) ==
    /\ p \in DOMAIN Tracked
    /\ p \in DOMAIN disk
    /\ is_file(disk, p)
    /\ ~size_mismatch(Some(Tracked[p]), Len(disk[p]))
    /\ digest(hash_type, disk[p]) # Tracked[p].digest

\* the file p is tracked, can be read and has another size than its entry carries
SizeDiffers(p) ==
    /\ p \in DOMAIN Tracked
    /\ p \in DOMAIN disk
    /\ is_file(disk, p)
    /\ IsSome(Tracked[p].size)
    /\ Len(disk[p]) # Unwrap(Tracked[p].size)

\* the walk hands p to process_file and neither the manifest test nor the
\* match and ignore patterns make it return
Examined(p) ==
    /\ Join(p) # hash_file_path
    /\ IsSome(to_str(Join(p)))
    /\ ~Excludes(Join(p))

\* positions in events of every error or warning message about the file p
AnomaliesAbout(p) == EventsAbout("error", p) \cup EventsAbout("warning", p)

C5_SizeTamper ==
    (pc = "done" /\ process_type = "Verify") =>
        \A p \in DOMAIN Tracked :
            SizeDiffers(p) =>
                /\ Cardinality(Reports("error", p, "IncorrectSize")) = 1
                /\ EventsAbout("progress", p) = {}
                /\ Reports("error", p, "Missing") = {}
                /\ Reports("error", p, "IncorrectHash") = {}
                /\ result = "Error"

\* C5 amended: the same in a run that is not cancelled, for a tracked file
\* that the match and ignore patterns, evaluated on its absolute path, do
\* not exclude from the walk.
C5_SizeTamperExamined ==
    (ReturnedUncancelled /\ process_type = "Verify") =>
        \A p \in DOMAIN Tracked :
            (SizeDiffers(p) /\ Examined(p)) =>
                /\ Cardinality(Reports("error", p, "IncorrectSize")) = 1
                /\ EventsAbout("progress", p) = {}
                /\ Reports("error", p, "Missing") = {}
                /\ Reports("error", p, "IncorrectHash") = {}
                /\ result = "Error"

\* a Verify run has returned Error after meeting a tracked file of another
\* size than recorded, the entry still being in the store
C5_Witness ==
    /\ ReturnedUncancelled
    /\ process_type = "Verify"
    /\ \E p \in DOMAIN Tracked :
          /\ SizeDiffers(p)
          /\ Examined(p)
          /\ p \in DOMAIN hash_file
          /\ Reports("error", p, "IncorrectSize") # {}


\* the match or the ignore pattern makes the walk skip the file p
ExcludedInWalk(p) == IsSome(to_str(Join(p))) /\ Excludes(Join(p))

\* C6: in Verify a file that the match or the ignore pattern excludes during
\* the walk (decided on the absolute path) is never reported Missing,
\* whether or not it exists and although the manifest lists it: the decision
\* of the finalization (on the relative path) agrees with that of the walk.
C6_FilteredNeverMissing ==
    (Running /\ process_type = "Verify") =>
        \A p \in DOMAIN Tracked :
            ExcludedInWalk(p) => Reports("error", p, "Missing") = {}

\* the lines of the manifest file of the run, as it is on disk
ManifestLines ==
    IF disk[HashFileRelative] = NoFile THEN <<>> ELSE Lines(disk[HashFileRelative])

\* a line of either format names the file p
LineNames(line, p) ==
    \/ StartsWith(line, p \o <<"|">>)
    \/ /\ Len(line) > Len(p) + 1
       /\ Suffix(line, Len(line) - Len(p) - 1) = <<" ", "*">> \o p

\* C7: in Create both patterns are applied; a visited file that does not
\* match the match pattern, or that matches the ignore pattern, is never in
\* the store and never in the manifest the run writes.
C7_CreateFilters ==
    (Running /\ process_type = "Create") =>
        \A p \in visited :
            ExcludedInWalk(p) =>
                /\ p \notin DOMAIN hash_file
                /\ saved => \A i \in DOMAIN ManifestLines :
                                ~LineNames(ManifestLines[i], p)

\* a Create run given both patterns has written its manifest after visiting
\* a file the match pattern accepts and the ignore pattern excludes
C7_Witness ==
    /\ pc = "done"
    /\ process_type = "Create"
    /\ saved
    /\ IsSome(match_regex)
    /\ IsSome(ignore_regex)
    /\ \E p \in visited :
          /\ IsSome(to_str(Join(p)))
          /\ is_match(Unwrap(match_regex), Join(p))
          /\ is_match(Unwrap(ignore_regex), Join(p))


\* no error event was sent in the run
NoErrorEvent == \A i \in DOMAIN events : events[i].channel # "error"

\* what the claim says of a visited file p that has no entry
ExtraGated(p) ==
    /\ ~options.report_extra => AnomaliesAbout(p) = {}
    /\ options.report_extra =>
          /\ Cardinality(Reports("warning", p, "Extra")) = 1
          /\ AnomaliesAbout(p) = Reports("warning", p, "Extra")
    /\ EventsAbout("progress", p) = {}
    /\ NoErrorEvent => (~error_occurred /\ result # "Error")

Requested(opts) == IF IsSome(opts.hash_type) THEN Unwrap(opts.hash_type) ELSE "SHA1"

\* a manifest file of the algorithm, under either name, exists in the root
HasManifest(t) == \E f \in HashFileFormat : is_file(disk, ManifestName(t, f))

\* positions in the enumeration of the algorithms that have a manifest
Found == {i \in 1..Len(HashType) : HasManifest(HashType[i])}

\* the first algorithm of the enumeration that has a manifest
FirstFound == HashType[CHOOSE i \in Found : \A j \in Found : i <= j]

\* C9: unless force_create is set, the processor is in Verify mode exactly
\* when a manifest of some supported algorithm exists under either name; the
\* requested algorithm is adopted if it has one, otherwise the first of the
\* enumeration that has one, together with the format of the file found; if
\* none exists the mode is Create with the requested algorithm.
C9_ModeSelection ==
    (pc = "new" /\ ~options.force_create) =>
        /\ (process_type = "Verify") <=> (Found # {})
        /\ HasManifest(Requested(options)) => hash_type = Requested(options)
        /\ (Found # {} /\ ~HasManifest(Requested(options))) => hash_type = FirstFound
        /\ Found # {} =>
              /\ IsSome(hash_file_format)
              /\ is_file(disk, ManifestName(hash_type, Unwrap(hash_file_format)))
              /\ hash_file_path = Join(ManifestName(hash_type, Unwrap(hash_file_format)))
        /\ Found = {} =>
              /\ process_type = "Create"
              /\ hash_type = Requested(options)
              /\ hash_file_format = options.hash_file_format

\* a processor was constructed where the requested algorithm has no manifest,
\* two others have one, and the algorithm and the format of the first found
\* replaced the requested ones
C9_Witness ==
    /\ pc = "new"
    /\ ~options.force_create
    /\ ~HasManifest(Requested(options))
    /\ Cardinality(Found) >= 2
    /\ process_type = "Verify"
    /\ hash_type = FirstFound
    /\ hash_type # Requested(options)
    /\ IsSome(options.hash_file_format)
    /\ hash_file_format # options.hash_file_format

\* C10: with force_create the mode is Create whatever manifests exist; the
\* manifest with the target name is never loaded (the store holds only files
\* of the current walk, as they are), is skipped by the walk, and on Success
\* is overwritten with exactly the entries of the store.
C10_ForceCreate ==
    (pc # "idle" /\ options.force_create) =>
        /\ process_type = "Create"
        /\ pc # "panic"
        /\ Running =>
              /\ DOMAIN hash_file \subseteq visited \ {HashFileRelative}
              /\ \A p \in DOMAIN hash_file :
                    hash_file[p] = HashFileEntry(p, Some(Len(disk[p])), TRUE,
                                                 digest(hash_type, disk[p]))
              /\ AnomaliesAbout(HashFileRelative) = {}
              /\ EventsAbout("progress", HashFileRelative) = {}
        /\ (pc = "done" /\ result = "Success") =>
              /\ saved
              /\ \E order \in get_file_paths(hash_file) :
                    disk[HashFileRelative] =
                        save(hash_file,
                             IF IsSome(options.hash_file_format)
                             THEN Unwrap(options.hash_file_format) ELSE "HashCheck",
                             order)

\* a run with force_create found a manifest with the target name, visited
\* it, returned Success and left it with another content
C10_Witness ==
    /\ pc = "done"
    /\ options.force_create
    /\ result = "Success"
    /\ manifest_at_start # NoFile
    /\ HashFileRelative \in visited
    /\ disk[HashFileRelative] # manifest_at_start


\* files that went through process_file to its end: in Create they are the
\* entries of the store, in Verify the entries the run removed from it
Completed ==
    IF process_type = "Create" THEN DOMAIN hash_file
    ELSE (DOMAIN Tracked) \ (DOMAIN hash_file)

\* C11: the result is Canceled if the token is cancelled when the walk has
\* returned and the run looks at it; otherwise Error exactly when an error
\* event was recorded; otherwise NoFilesProcessed exactly when no file went
\* through process_file to its end; otherwise Success. Warnings do not count.
C11_ResultFunction ==
    pc = "done" =>
        /\ canceled_at_return => result = "Canceled"
        /\ result = IF cancellation_token THEN "Canceled"
                    ELSE IF ~NoErrorEvent THEN "Error"
                    ELSE IF Completed = {} THEN "NoFilesProcessed"
                    ELSE "Success"
        /\ (process_type = "Create" /\ result = "NoFilesProcessed") => is_empty(hash_file)

\* a run that sent a warning and no error has returned Success
C11_Witness ==
    /\ pc = "done"
    /\ ~cancellation_token
    /\ \E i \in DOMAIN events : events[i].channel = "warning"
    /\ NoErrorEvent
    /\ Completed # {}
    /\ result = "Success"


\* files under the root, the manifest file of the run apart
FilesUnderRoot == {p \in DOMAIN disk : disk[p] # NoFile /\ p # HashFileRelative}

\* a file under the root that Create neither skips nor filters: its name is
\* valid Unicode, the patterns do not exclude it and it is not skipped for
\* bearing the name of the executable found in the working directory (a
\* skip that comes after the metadata were read)
Eligible(p) ==
    /\ p \in FilesUnderRoot
    /\ IsSome(to_str(Join(p)))
    /\ ~Excludes(Join(p))
    /\ ~(work_path_is_file /\ p = BinName /\ disk[p] # BrokenLink)

\* the run left the manifest file as it found it
ManifestUntouched == ~saved /\ disk[HashFileRelative] = manifest_at_start

\* C12 as stated: a Create run in which no file is eligible returns
\* NoFilesProcessed and creates no manifest file.
C12_EmptyCreate ==
    (pc = "done" /\ process_type = "Create" /\ \A p \in FilesUnderRoot : ~Eligible(p)) =>
        (result = "NoFilesProcessed" /\ ManifestUntouched)

\* C12 amended: a Create run that is not cancelled and in which no file is
\* eligible returns NoFilesProcessed and creates no manifest file.
C12_EmptyCreateUncancelled ==
    (/\ ReturnedUncancelled
     /\ process_type = "Create"
     /\ \A p \in FilesUnderRoot : ~Eligible(p)) =>
        (result = "NoFilesProcessed" /\ ManifestUntouched)

\* a Create run over a directory that holds files, none of them eligible,
\* has returned NoFilesProcessed
C12_Witness ==
    /\ ReturnedUncancelled
    /\ process_type = "Create"
    /\ FilesUnderRoot # {}
    /\ visited # {}
    /\ \A p \in FilesUnderRoot : ~Eligible(p)
    /\ result = "NoFilesProcessed"


\* the files a Create run over the directory is to record
EligibleFiles == {p \in FilesUnderRoot : Eligible(p)}

\* the format a Create run writes
WrittenFormat ==
    IF IsSome(hash_file_format) THEN Unwrap(hash_file_format) ELSE "HashCheck"

\* the line, without its end, that holds the path of p, its size on disk and
\* the digest of its content: path|size|digest
FullLine(p) ==
    p \o <<"|">> \o to_string(Len(disk[p])) \o <<"|">> \o digest(hash_type, disk[p])

\* the line, without its end, that holds the digest of the content of p and
\* its path, and no size: digest *path
SizelessLine(p) == digest(hash_type, disk[p]) \o <<" ", "*">> \o p

\* the manifest on disk has one line per file of S and no other line, the
\* line of p being line(p)
ManifestHoldsExactly(S, line(_)) ==
    /\ Len(ManifestLines) = Cardinality(S)
    /\ \A p \in S : \E i \in DOMAIN ManifestLines : ManifestLines[i] = line(p)
    /\ \A i \in DOMAIN ManifestLines : \E p \in S : ManifestLines[i] = line(p)

RepeatsCreate ==
    /\ pc = "done"
    /\ process_type = "Create"
    /\ options.force_create
    /\ prev.process_type = "Create"
    /\ prev.result = "Success"
    /\ prev.options = [options EXCEPT !.force_create = FALSE]
    /\ tampers = 0

\* C14: a Create run and a second one with force_create over the same
\* unchanged directory write byte-identical manifest files: save writes the
\* lines in the same order in both runs.
C14_CreateIdempotent ==
    (RepeatsCreate /\ result = "Success") => disk[HashFileRelative] = manifest_at_start


\* the files present under the root during the walk, the manifest file
\* included if the run found one
PresentFiles ==
    {p \in DOMAIN disk :
        IF p = HashFileRelative THEN manifest_at_start # NoFile ELSE disk[p] # NoFile}

\* the file p got the treatment its own state calls for: skipped as the
\* manifest file or by the patterns, reported in an error or a warning, gone
\* through process_file to its end, or left aside for having no entry (in
\* Verify, or as the executable in the working directory)
Settled(p) ==
    \/ p = HashFileRelative
    \/ IsSome(to_str(Join(p))) /\ Excludes(Join(p))
    \/ AnomaliesAbout(p) # {}
    \/ p \in Completed
    \/ /\ p \notin DOMAIN Tracked
       /\ process_type = "Verify" \/ (work_path_is_file /\ p = BinName)

SizeMatches(p) ==
    /\ p \in DOMAIN Tracked
    /\ p \in DOMAIN disk
    /\ is_file(disk, p)
    /\ IsSome(Tracked[p].size)
    /\ Len(disk[p]) = Unwrap(Tracked[p].size)

\* a Verify run with size_only hashes no file, sends no progress event and no
\* IncorrectHash error
SizeOnlyUnhashed ==
    /\ pc \notin {"hash", "hashed"}
    /\ \A i \in DOMAIN events :
          /\ events[i].channel # "progress"
          /\ events[i].channel = "error" => events[i].msg.state # "IncorrectHash"

\* the file p was accepted: its entry was removed from the store, it counts
\* as processed and nothing was reported about it
Accepted(p) ==
    /\ p \notin DOMAIN hash_file
    /\ files_processed
    /\ AnomaliesAbout(p) = {}

\* C19 as stated: in a Verify run with size_only no file is hashed, no
\* progress event and no IncorrectHash is sent, and every tracked file whose
\* size matches its entry is accepted, whatever its content
C19_SizeOnlyVerify ==
    (Running /\ process_type = "Verify" /\ size_only) =>
        /\ SizeOnlyUnhashed
        /\ ReturnedUncancelled => \A p \in DOMAIN Tracked : SizeMatches(p) => Accepted(p)

\* C19 amended: the same, for the tracked files that the match and ignore
\* patterns, evaluated on the absolute path, do not exclude from the walk
C19_SizeOnlyVerifyExamined ==
    (Running /\ process_type = "Verify" /\ size_only) =>
        /\ SizeOnlyUnhashed
        /\ ReturnedUncancelled =>
              \A p \in DOMAIN Tracked : (SizeMatches(p) /\ Examined(p)) => Accepted(p)

\* a Verify run with size_only has accepted a tracked file of the recorded
\* size whose content is not the content the entry was made from
C19_Witness ==
    /\ ReturnedUncancelled
    /\ process_type = "Verify"
    /\ size_only
    /\ result = "Success"
    /\ \E p \in DOMAIN Tracked :
          /\ SizeMatches(p)
          /\ digest(hash_type, disk[p]) # Tracked[p].digest
          /\ Accepted(p)

\* load has been applied to the manifest file the run found
AfterLoad == process_type = "Verify" /\ pc \in {"walk", "final", "panic"}

\* the lines of the manifest file, CRLF line ends accepted
GivenLines == Lines(manifest_at_start)

\* the first line contains a pipe
SizeCarrying == GivenLines # <<>> /\ Find(GivenLines[1], "|") # 0

\* path separators normalised to the host separator
Normalised(path) == Replace(path, replaceable_separator, MAIN_SEPARATOR)

\* what the claim makes of a line of three pipe-separated fields
CheckEntry(line) ==
    LET parts == Split(line, "|")
    IN  [file_path |-> Normalised(parts[1]),
         size      |-> ParseU64(parts[2]),
         digest    |-> to_lowercase(parts[3])]

\* what the claim makes of a line with a space
SumEntry(line) ==
    LET sp == Find(line, " ")
    IN  [file_path |-> Normalised(Suffix(line, sp + 2)),
         size      |-> None,
         binary    |-> Len(line) > sp /\ line[sp + 1] = "*",
         digest    |-> to_lowercase(Prefix(line, sp - 1))]

\* positions of the lines that become entries in each format
CheckLines == {i \in DOMAIN GivenLines : Len(Split(GivenLines[i], "|")) = 3}

SumLines == {i \in DOMAIN GivenLines : Find(GivenLines[i], " ") # 0}

\* the store holds, for each line of I, the entry made of it, unless a later
\* line has the same path; fields names the fields the claim speaks of
StoreHolds(I, made(_), fields) ==
    /\ DOMAIN hash_file = {made(GivenLines[i]).file_path : i \in I}
    /\ \A i \in I :
          LET e == made(GivenLines[i])
          IN  (\A j \in I : j > i => made(GivenLines[j]).file_path # e.file_path)
                  => \A f \in fields : hash_file[e.file_path][f] = e[f]

\* the store is as the claim describes it, in the format the first line calls for
EntriesAsDescribed ==
    IF SizeCarrying
    THEN StoreHolds(CheckLines, CheckEntry, {"file_path", "size", "digest"})
    ELSE StoreHolds(SumLines, SumEntry, {"file_path", "size", "binary", "digest"})

\* the line has three fields and one of them is fatal: a path over
\* MAX_PATH_SIZE bytes, a digest over MAX_HASH_SIZE bytes, or a size that
\* is not a decimal number of 64 bits (a plus sign may precede the digits)
FatalLine(line) ==
    LET parts == Split(line, "|")
    IN  /\ Len(parts) = 3
        /\ \/ Len(parts[1]) > MAX_PATH_SIZE
           \/ Len(parts[3]) > MAX_HASH_SIZE
           \/ LET digits == IF Len(parts[2]) > 1 /\ parts[2][1] = "+"
                            THEN Tail(parts[2]) ELSE parts[2]
              IN  ~(/\ digits # <<>>
                    /\ \A i \in 1..Len(digits) : IsDigit(digits[i])
                    /\ FitsU64(digits))

\* no line of the size-carrying format is fatal
NoFatalLine ==
    SizeCarrying => \A i \in DOMAIN GivenLines : ~FatalLine(GivenLines[i])

\* C20: load chooses the format by the pipe in the first line alone; in the
\* size-carrying format each line of three fields becomes the entry of its
\* path with its decimal size and its digest in lower case; in the size-less
\* format each line becomes an entry without size, with the digest before
\* the first space, the binary flag set iff an asterisk follows the space,
\* and the rest as path (lines without a space are left aside here, and so
\* are the files of the size-carrying format with a fatal line)
C20_ManifestLoad ==
    (AfterLoad /\ NoFatalLine) => (pc # "panic" /\ EntriesAsDescribed)

\* whenever load returns, the store is as C20 describes it
LoadedAsDescribed == (AfterLoad /\ pc # "panic") => EntriesAsDescribed

\* load panics only on a fatal line of the size-carrying format or on a
\* line of the size-less format whose first space is its last character
LoadPanics ==
    AfterLoad =>
        (pc = "panic" <=>
            \/ ~NoFatalLine
            \/ /\ ~SizeCarrying
               /\ \E i \in SumLines : Find(GivenLines[i], " ") = Len(GivenLines[i]))

\* C21: in the size-carrying format a line of three fields whose path is
\* longer than 4095 bytes, whose digest is longer than 1024 bytes or whose
\* size is not a decimal unsigned integer aborts the load, nothing of the
\* file being used; a path of 4095 bytes and a digest of 1024 bytes are
\* accepted
C21_FatalManifestLines ==
    (AfterLoad /\ SizeCarrying) =>
        /\ (\E i \in DOMAIN GivenLines : FatalLine(GivenLines[i]))
              => (pc = "panic" /\ is_empty(hash_file))
        /\ \A i \in CheckLines :
              LET parts == Split(GivenLines[i], "|")
              IN  (/\ \A j \in DOMAIN GivenLines : ~FatalLine(GivenLines[j])
                   /\ Len(parts[1]) = MAX_PATH_SIZE
                   /\ Len(parts[3]) = MAX_HASH_SIZE)
                      => (pc # "panic" /\ Normalised(parts[1]) \in DOMAIN hash_file)

\* the load of a line whose path has 4096 bytes, and nothing else wrong, was
\* aborted
C21_Witness ==
    /\ AfterLoad
    /\ SizeCarrying
    /\ pc = "panic"
    /\ \E i \in CheckLines :
          LET parts == Split(GivenLines[i], "|")
          IN  /\ Len(parts[1]) = MAX_PATH_SIZE + 1
              /\ Len(parts[3]) <= MAX_HASH_SIZE
              /\ IsSome(ParseU64(parts[2]))

\* compute is or was at work on the file of cur
Hashing == pc \in {"hash", "read", "hashed"}

\* the byte counts of the notifications sent so far, in order
RECURSIVE NotifiedIn(_)
NotifiedIn(evs) ==
    IF evs = <<>> THEN <<>>
    ELSE IF Head(evs).channel = "hash_progress"
    THEN <<Head(evs).msg.bytes_processed>> \o NotifiedIn(Tail(evs))
    ELSE NotifiedIn(Tail(evs))

Notified == NotifiedIn(events)

\* the k-th byte count notified, 0 before the first
NotifiedAt(k) == IF k = 0 THEN 0 ELSE Notified[k]

\* the numbers of bytes hashed after each read done so far
ReadPoints ==
    {f \in 1..cur.fed : f = cur.fed \/ f % cur.buffer_size = 0}

\* the byte counts are cumulative counts after a read, strictly increasing
\* and within the size of the file
NotifiedCumulative ==
    \A k \in DOMAIN Notified :
        /\ Notified[k] \in ReadPoints
        /\ Notified[k] > NotifiedAt(k - 1)
        /\ Notified[k] <= cur.file_size

\* the digest recorded for a file is the digest of its content, whether the
\* hasher had a sender or not
DigestOfContent ==
    \A p \in DOMAIN hash_file : hash_file[p].digest = digest(hash_type, disk[p])

\* C22 as stated: with a sender and a block size T > 0, compute notifies
\* exactly when the bytes hashed since the last notification reach T, each
\* time with the cumulative count, so that the counts increase strictly and
\* stay within the file size; the accumulator never goes below zero; the
\* digest is the one computed without a sender
C22_HashNotifications ==
    /\ DigestOfContent
    /\ (Hashing /\ cur.sender /\ cur.notification_block_size > 0) =>
              LET T == cur.notification_block_size
                  K == Len(Notified)
              IN  /\ NotifiedCumulative
                  /\ cur.running >= 0
                  /\ \A k \in 1..K :
                        /\ Notified[k] - NotifiedAt(k - 1) >= T
                        /\ \A f \in ReadPoints :
                              (NotifiedAt(k - 1) < f /\ f < Notified[k])
                                  => f - NotifiedAt(k - 1) < T
                  /\ \A f \in ReadPoints : f > NotifiedAt(K) => f - NotifiedAt(K) < T

\* C22 amended: the k-th notification is sent after the first read that
\* brings the bytes hashed to k * T or more and that follows the read of the
\* notification before it: the accumulator keeps what exceeded T, so it is
\* the bytes hashed less T for each notification sent, never below zero
C22_HashNotificationsCarried ==
    /\ DigestOfContent
    /\ (Hashing /\ cur.sender /\ cur.notification_block_size > 0) =>
              LET T == cur.notification_block_size
                  K == Len(Notified)
              IN  /\ NotifiedCumulative
                  /\ cur.running >= 0
                  /\ cur.running = cur.fed - K * T
                  /\ \A k \in 1..K :
                        /\ Notified[k] >= k * T
                        /\ \A f \in ReadPoints :
                              (NotifiedAt(k - 1) < f /\ f < Notified[k]) => f < k * T
                  /\ \A f \in ReadPoints : f > NotifiedAt(K) => f < (K + 1) * T

\* a file of 8 bytes read by blocks of 3 with a block size of 4 was hashed
\* to its end with the notifications 6 and 8
C22_Witness ==
    /\ pc = "hashed"
    /\ ~cancellation_token
    /\ cur.sender
    /\ cur.buffer_size = 3
    /\ cur.notification_block_size = 4
    /\ Notified = <<6, 8>>

\* C23: every error or warning event, of every kind, carries the path of the
\* file relative to the root, never the absolute path
C23_RelativePaths ==
    \A i \in Anomalies : ~StartsWith(events[i].msg.file_path, BasePath)

\* the Create run handed the file p to process_file and left it without a
\* trace: the file can be read, its name is valid Unicode, the patterns let
\* it through, it has no entry, no event names it. Of the returns of
\* process_file only the skip of the executable does that.
SkippedAsBinary(p) ==
    /\ process_type = "Create"
    /\ pc = "done"
    /\ p \in visited
    /\ Examined(p)
    /\ is_file(disk, p)
    /\ p \notin DOMAIN hash_file
    /\ AnomaliesAbout(p) = {}
    /\ EventsAbout("progress", p) = {}

\* C24: a file is skipped as the executable of the program only when the
\* running executable is a file directly inside the target root; when it is
\* not, no file under the root is skipped by this rule, whatever the current
\* working directory contains
C24_SelfExclusion ==
    \A p \in DOMAIN disk : SkippedAsBinary(p) => bin_in_base_path

\* files whose name is not well-formed Unicode
InvalidUnicode == {p \in DOMAIN disk : ~IsSome(to_str(Join(p)))}

\* what the run holds about such a file once the walk reached it: no entry,
\* no progress event, no error, one warning and that warning says
\* InvalidUnicodeFileName; the hasher never has it in hand
InvalidUnicodeUntouched ==
    \A p \in InvalidUnicode :
        /\ p \notin DOMAIN hash_file
        /\ cur.relative # p
        /\ EventsAbout("progress", p) = {}
        /\ EventsAbout("error", p) = {}
        /\ p \in visited =>
              /\ Cardinality(EventsAbout("warning", p)) = 1
              /\ \A i \in EventsAbout("warning", p) :
                    events[i].msg.state = "InvalidUnicodeFileName"

\* the step in which the walk hands such a file to process_file: the flags
\* and the manifest the result is computed from stay as they are, the hasher
\* is not started, the warning is the only event added
InvalidUnicodeStep ==
    \A p \in InvalidUnicode :
        (p \notin visited /\ p \in visited') =>
            /\ hash_file' = hash_file
            /\ files_processed' = files_processed
            /\ error_occurred' = error_occurred
            /\ cur' = cur
            /\ pc' \in {"walk", "final"}
            /\ Len(events') = Len(events) + 1
            /\ SubSeq(events', 1, Len(events)) = events
            /\ events'[Len(events')].channel = "warning"
            /\ events'[Len(events')].msg.state = "InvalidUnicodeFileName"

\* C25: a file whose path is not well-formed Unicode is never hashed, never
\* added to or removed from the manifest and never counted as processed; it
\* yields exactly one InvalidUnicodeFileName warning and does not change the
\* result of the run
C25_InvalidUnicode ==
    [](InvalidUnicodeUntouched) /\ [][InvalidUnicodeStep]_vars

\* a run that met such a file and another one returned Success with the
\* other file as its only entry
C25_Witness ==
    /\ pc = "done"
    /\ result = "Success"
    /\ process_type = "Create"
    /\ \E p \in InvalidUnicode : p \in visited
    /\ DOMAIN hash_file # {}

\* compute returned before the end of the file only if the token is set
PartialOnlyCanceled ==
    (pc = "hashed" /\ cur.fed < cur.file_size) => cancellation_token

\* process_file returns from a file whose hashing the cancellation met: the
\* manifest and the flags stay as they were and the only event added is the
\* closing progress event
CanceledHashReturn ==
    (Hashing /\ cancellation_token /\ ~Hashing') =>
        /\ hash_file' = hash_file
        /\ files_processed' = files_processed
        /\ error_occurred' = error_occurred
        /\ disk' = disk
        /\ events' = Append(events, Event("progress",
                         FileProgress(cur.relative, cur.file_size, cur.file_size)))

\* C26: if the token is cancelled while a file is being hashed, process_file
\* returns without adding or overwriting its entry (Create), without
\* removing its entry or emitting IncorrectHash (Verify) and without setting
\* files_processed; the partial digest is never compared or stored
C26_MidHashCancel ==
    [](PartialOnlyCanceled) /\ [][CanceledHashReturn]_vars

\* a Verify run was cancelled while it hashed a tracked file whose content
\* differs: the entry is still in the store, no error was sent
C26_Witness ==
    /\ pc = "done"
    /\ result = "Canceled"
    /\ process_type = "Verify"
    /\ \E p \in visited :
          /\ Cardinality(EventsAbout("progress", p)) = 2
          /\ p \in DOMAIN hash_file
          /\ ContentDiffers(p)
          /\ AnomaliesAbout(p) = {}

\* files handed to process_file since the token was set
VisitedSinceCancel == visited \ visited_at_cancel

\* C27: the walker tests the token before every directory entry at every
\* recursion depth, so after the token is set at most one further
\* process_file call starts, and the walk returns without visiting the
\* remaining entries of the current directory or of any ancestor directory
C27_WalkerCancellation ==
    cancellation_token =>
        /\ Cardinality(VisitedSinceCancel) <= 1
        /\ pc \in {"final", "done"} => stack = <<>>

\* the token was set between the test and the call in a subdirectory: the
\* file of the subdirectory was processed, the file left in the root was not
C27_Witness ==
    /\ pc = "done"
    /\ cancellation_token
    /\ result = "Canceled"
    /\ visited_at_cancel = {}
    /\ visited = {<<"d", "/", "a">>}
    /\ is_file(disk, <<"a">>)

\* the token was set while compute ran
CanceledInCompute == cancellation_token /\ IsSome(cur.fed_at_cancel)

\* bytes read and fed to the digest since the token was set
FedSinceCancel == cur.fed - Unwrap(cur.fed_at_cancel)

\* after the token is set at most one more block is read and fed
OneMoreBlock ==
    (Hashing /\ CanceledInCompute) => FedSinceCancel <= cur.buffer_size

\* compute does not return through the read that meets the end of the file
ReturnsBeforeEof ==
    (pc = "read" /\ CanceledInCompute) => pc' # "hashed"

\* the test that finds the token set returns, nothing read
TestReturns ==
    (pc = "hash" /\ cancellation_token /\ pc' # "hash") =>
        (pc' = "hashed" /\ cur' = cur)

\* compute stopped short of the end of the file if more than one block was
\* left to read when the token was set
StopsShort ==
    (pc = "hashed" /\ CanceledInCompute
        /\ Unwrap(cur.fed_at_cancel) + cur.buffer_size < cur.file_size) =>
            cur.fed < cur.file_size

\* C28 as stated: compute tests the token before every block read, so after
\* the token is set at most one more block is read and fed to the digest,
\* and compute returns without reaching end-of-file.
C28_HasherCancellation ==
    [](OneMoreBlock) /\ [][ReturnsBeforeEof]_vars

\* C28: compute tests the token before every block read, so after the token
\* is set at most one more block is read and fed to the digest, and compute
\* returns at its next test of the token, short of the end of the file
\* whenever more than one block was left to read when the token was set
C28_HasherCancellationBounded ==
    [](OneMoreBlock /\ StopsShort) /\ [][TestReturns]_vars

\* the token was set after a test, in a file of 8 bytes read by blocks of 3
\* of which 3 were fed: one more block was read and compute returned at 6
C28_Witness ==
    /\ pc = "hashed"
    /\ CanceledInCompute
    /\ cur.file_size = 8
    /\ cur.buffer_size = 3
    /\ cur.fed_at_cancel = Some(3)
    /\ cur.fed = 6

\* the run is between the construction of its processor and its return
RunInProgress == pc \notin {"idle", "done", "panic"}

\* what the manifest is written under: Create, the token not set when the
\* walk has returned, no error recorded, a store that is not empty
WriteConditions ==
    /\ process_type = "Create"
    /\ ~cancellation_token
    /\ ~error_occurred
    /\ ~is_empty(hash_file)

\* at the return of the run: the manifest was written exactly under these
\* conditions, a run that did not write left the file as it found it, and a
\* Create run that returns Success has written
WrittenIff ==
    pc = "done" =>
        /\ saved <=> WriteConditions
        /\ saved => is_file(disk, HashFileRelative)
        /\ ~saved => disk[HashFileRelative] = manifest_at_start
        /\ (process_type = "Create" /\ result = "Success") => saved

\* a step of a run changes no file but the manifest of the run, and a step
\* of a Verify run changes no file at all
OnlyManifestWritten ==
    RunInProgress =>
        /\ \A p \in DOMAIN disk : p # HashFileRelative => disk'[p] = disk[p]
        /\ process_type = "Verify" => disk' = disk

\* C29: the manifest is written to disk if and only if the mode is Create,
\* the token is not cancelled when the walk has returned, no error was
\* recorded and the in-memory manifest is non-empty; a Verify run never
\* creates, truncates or modifies any manifest file, and a Create run that
\* returns Success has always written its manifest
C29_ManifestWritten ==
    [](WrittenIff) /\ [][OnlyManifestWritten]_vars

\* a Verify run returned Success and the manifest it read is still there,
\* after a Create run that wrote it
C29_Witness ==
    /\ pc = "done"
    /\ process_type = "Verify"
    /\ result = "Success"
    /\ ~saved
    /\ prev.process_type = "Create"
    /\ prev.result = "Success"
    /\ is_file(disk, HashFileRelative)
    /\ disk[HashFileRelative] = manifest_at_start

\* a line the claim calls malformed: in the size-carrying format one without
\* exactly three fields; in the size-less format one without a space, or one
\* that ends at its first space or one character after it
Malformed(line) ==
    IF SizeCarrying
    THEN Len(Split(line, "|")) # 3
    ELSE LET sp == Find(line, " ")
         IN  sp = 0 \/ Len(line) <= sp + 1

WellFormedLines == {i \in DOMAIN GivenLines : ~Malformed(GivenLines[i])}

\* paths of the entries the well-formed lines make
WellFormedPaths ==
    {(IF SizeCarrying THEN CheckEntry(GivenLines[i]) ELSE SumEntry(GivenLines[i])).file_path :
        i \in WellFormedLines}

\* C30: malformed manifest lines are silently skipped on load and never
\* abort it: in the size-carrying format a line without exactly three
\* fields, and in the size-less format a line without a space or one that
\* ends at or one character after its first space, adds no entry and raises
\* no error
C30_MalformedSkipped ==
    AfterLoad =>
        /\ WellFormedLines = {} => pc # "panic"
        /\ pc # "panic" => DOMAIN hash_file \subseteq WellFormedPaths

\* the part of C30 that holds: a line of the size-carrying format without
\* exactly three fields, and a line of the size-less format without a
\* space, add no entry and raise no error
SkippedLinesHarmless ==
    (AfterLoad /\ \A i \in DOMAIN GivenLines :
                     IF SizeCarrying THEN Len(Split(GivenLines[i], "|")) # 3
                     ELSE Find(GivenLines[i], " ") = 0) =>
        (pc # "panic" /\ is_empty(hash_file))

\* the store read back from the manifest file the Create run has written
ReadBack == load(EmptyHashFile, disk[HashFileRelative])

\* the format the Create run saved in
SavedFormat == IF IsSome(hash_file_format) THEN Unwrap(hash_file_format) ELSE "HashCheck"

\* C31: for every store whose entries were produced by Create,
\* load(save(M, format)) yields a store with the same set of paths and the
\* same digest per path (and the same size per path in the size-carrying
\* format), for both formats and for every path string, including paths with
\* a pipe, a space, an asterisk or the non-host separator
C31_RoundTrip ==
    (pc = "done" /\ process_type = "Create" /\ saved) =>
        /\ ReadBack.kind = "ok"
        /\ DOMAIN ReadBack.files = DOMAIN hash_file
        /\ \A p \in DOMAIN hash_file \cap DOMAIN ReadBack.files :
              /\ ReadBack.files[p].digest = hash_file[p].digest
              /\ SavedFormat = "HashCheck" => ReadBack.files[p].size = hash_file[p].size

\* the part of C31 that holds: the round trip of a store none of whose paths
\* holds a pipe or the non-host separator
RoundTripPlainPaths ==
    (pc = "done" /\ process_type = "Create" /\ saved
        /\ \A p \in DOMAIN hash_file :
              ~Contains(p, "|") /\ ~Contains(p, replaceable_separator)) =>
        /\ ReadBack.kind = "ok"
        /\ DOMAIN ReadBack.files = DOMAIN hash_file
        /\ \A p \in DOMAIN hash_file :
              /\ ReadBack.files[p].digest = hash_file[p].digest
              /\ SavedFormat = "HashCheck" => ReadBack.files[p].size = hash_file[p].size

RECURSIVE LastInserted(_, _)
\* the entry inserted last for the path p and not removed since, by the
\* history of the operations
LastInserted(history, p) ==
    IF history = <<>> THEN None
    ELSE LET last == history[Len(history)]
             rest == SubSeq(history, 1, Len(history) - 1)
         IN  IF last.op = "add" /\ last.entry.file_path = p THEN Some(last.entry)
             ELSE IF last.op = "remove" /\ last.file_path = p THEN None
             ELSE LastInserted(rest, p)

\* C32: after any sequence of add_entry, remove_entry and load the store
\* holds at most one entry per path, get_entry returns the entry inserted
\* last for the path (also for duplicate lines of a loaded file),
\* get_file_paths lists every path once, and is_empty holds exactly when
\* every added path has been removed
C32_KeyUniqueness ==
    /\ \A p \in StorePaths :
          /\ get_entry(hash_file, p) = LastInserted(ops, p)
          /\ \A order \in get_file_paths(hash_file) :
                Cardinality({i \in DOMAIN order : order[i] = p})
                    = IF IsSome(LastInserted(ops, p)) THEN 1 ELSE 0
    /\ is_empty(hash_file) <=> \A p \in StorePaths : ~IsSome(LastInserted(ops, p))

\* the path a was inserted twice with two digests, then b was inserted and
\* a removed: the store holds b alone
C32_Witness ==
    /\ Len(ops) = MaxOps
    /\ \E i, j \in DOMAIN ops :
          /\ i < j
          /\ ops[i].op = "add" /\ ops[j].op = "add"
          /\ ops[i].entry.file_path = ops[j].entry.file_path
          /\ ops[i].entry.digest # ops[j].entry.digest
          /\ ops[j].entry.file_path \in DOMAIN hash_file
          /\ hash_file[ops[j].entry.file_path].digest = ops[j].entry.digest

\* positions in events of the progress events of the file p that carry
\* bytes_processed = 0
StartEvents(p) ==
    {i \in EventsAbout("progress", p) : events[i].msg.bytes_processed = 0}

\* C34: for every hashed file, of any size including zero bytes, the engine
\* emits exactly one FileProgress event with bytes_processed = 0, its start
\* event
C34_StartEventUnique ==
    \A p \in visited :
        /\ Cardinality(StartEvents(p)) <= 1
        /\ EventsAbout("progress", p) # {} => Cardinality(StartEvents(p)) = 1

\* the part of C34 that holds: files that are not empty
StartEventUniqueNonEmpty ==
    \A p \in visited :
        (is_file(disk, p) /\ Len(disk[p]) > 0) =>
            /\ Cardinality(StartEvents(p)) <= 1
            /\ EventsAbout("progress", p) # {} => Cardinality(StartEvents(p)) = 1

\* the contents whose digest is the one recorded for the tracked file p
RecordedFrom(p) == {c \in Contents : digest(hash_type, c) = Tracked[p].digest}

\* the tracked file p can be read and is not the file its entry was made
\* from: neither its content nor its size is what it was
Changed(p) ==
    /\ p \in DOMAIN Tracked
    /\ p \in DOMAIN disk
    /\ is_file(disk, p)
    /\ \E c \in RecordedFrom(p) : disk[p] # c /\ Len(disk[p]) # Len(c)

\* an IncorrectSize or IncorrectHash error was sent about p
ReportedChanged(p) ==
    \E i \in AnomaliesAbout(p) :
        /\ events[i].channel = "error"
        /\ events[i].msg.state \in {"IncorrectSize", "IncorrectHash"}

\* C38: a Verify run with size_only reports IncorrectSize or IncorrectHash for
\* every tracked file whose content and size are not the recorded ones,
\* whichever format the manifest has
C38_SizeOnlyDetectsChange ==
    (ReturnedUncancelled /\ process_type = "Verify" /\ size_only) =>
        \A p \in DOMAIN Tracked : (Changed(p) /\ Examined(p)) => ReportedChanged(p)

\* the same for the entries that record a size
SizeOnlyDetectsChangeSized ==
    (ReturnedUncancelled /\ process_type = "Verify" /\ size_only) =>
        \A p \in DOMAIN Tracked :
            (Changed(p) /\ Examined(p) /\ IsSome(Tracked[p].size)) => ReportedChanged(p)

\* C39: the threshold given to
\* set_progress_event_sender_with_bytes_processed_notification_block_size is
\* the threshold at which the digest adapter sends its byte counts, for every
\* file hashed in the run
C39_GranularityHonoured ==
    (Hashing /\ cur.sender) =>
        cur.notification_block_size = bytes_processed_notification_block_size

\* the digest adapter of the engine always counts in blocks of the default size
GranularityDefault ==
    (Hashing /\ cur.sender) =>
        cur.notification_block_size = DEFAULT_BYTES_PROCESSED_NOTIFICATION_BLOCK_SIZE

(***************************************************************************)
(* UI::run: the main thread, the message loop, the worker thread, and the  *)
(* proxy thread that process_internal starts when a progress sender is     *)
(* attached. The worker is reduced to the events it sends.                 *)
(***************************************************************************)
Channels == {"error", "warning", "progress", "complete",
             "internal_progress", "internal_hash_progress"}

Threads == {"main", "message_loop", "process", "proxy"}

\* the files the worker meets, in the order the walk yields them
UIFiles == <<<<"a">>, <<"b">>>>

HashFileProcessResult == {"Success", "Error", "NoFilesProcessed", "Canceled"}

\* unbounded(): an empty queue with its senders
Channel(senders) == [queue |-> <<>>, senders |-> senders]

\* a message in a queue; of is the file the worker was at when it was sent
Sent(msg, of) == [msg |-> msg, of |-> of]

\* Sender::send
send(c, name, msg, of) == [c EXCEPT ![name].queue = Append(@, Sent(msg, of))]

\* Receiver::recv taking the message at the head of the queue
taken(c, name) == [c EXCEPT ![name].queue = Tail(@)]

\* drop of n senders of a channel
dropped(c, name, n) == [c EXCEPT ![name].senders = @ - n]

\* history of the sends to the subscribers: the completion events sent, and
\* the progress, warning and error events sent after a completion event
SentEvent == [sent EXCEPT !.after = IF sent.complete > 0 THEN @ + 1 ELSE @]

SentComplete == [sent EXCEPT !.complete = @ + 1]

\* recv would return a message
ready(name) == chan[name].queue # <<>>

\* recv would return Err: nothing queued and no sender left
disconnected(name) == chan[name].queue = <<>> /\ chan[name].senders = 0

\* the state when UI::run has spawned its two threads: error_sender and
\* warning_sender are held by the closure of the worker and by the
\* processor; progress_sender and complete_sender are cloned into the
\* processor unless silent; complete_sender itself stays with the main thread
InitUI ==
    /\ disk \in {[p \in AllPaths |-> NoFile]}
    /\ work_path_is_file = FALSE
    /\ bin_in_base_path = FALSE
    /\ Fresh
    /\ manifest_at_start = NoFile
    /\ prev = NoRun
    /\ runs = 0
    /\ tampers = 0
    /\ budget = 0
    /\ silent \in BOOLEAN
    /\ chan = [c \in Channels |->
                 IF c \in {"error", "warning"} THEN Channel(2)
                 ELSE IF c \in {"progress", "complete"}
                      THEN Channel(IF silent THEN 1 ELSE 2)
                      ELSE Channel(0)]
    /\ thread = [t \in Threads |->
                   IF t = "main" THEN "join_message_loop"
                   ELSE IF t = "message_loop" THEN "select"
                   ELSE IF t = "process" THEN "load"
                   ELSE "none"]
    /\ \E n \in 0..MaxUIFiles :
          worker = [files |-> n, done |-> 0, blocks |-> 0, notified |-> 0,
                    result |-> "None"]
    /\ proxy = [current_file_path |-> <<>>, current_file_size |-> 0]
    /\ message_loop = [error_sender_dropped |-> FALSE,
                       warning_sender_dropped |-> FALSE,
                       progress_sender_dropped |-> silent,
                       skip_processed |-> FALSE,
                       file_progress |-> FileProgress(<<>>, 0, 0)]
    /\ output = <<>>
    /\ sent = [complete |-> 0, after |-> 0]
    /\ seen = {}

\* the file the worker is at
CurrentFile == UIFiles[worker.done + 1]

\* size of a file for which the hasher sends n notifications
SizeOf(n) == n * DEFAULT_BYTES_PROCESSED_NOTIFICATION_BLOCK_SIZE

\* process_internal up to traverse, returning from load: the channels to the
\* proxy thread are made and the thread is spawned, if a progress sender is
\* attached
ProcessLoad ==
    /\ thread["process"] = "load"
    /\ IF silent
       THEN /\ thread' = [thread EXCEPT !["process"] = "walk"]
            /\ UNCHANGED chan
       ELSE /\ thread' = [thread EXCEPT !["process"] = "walk", !["proxy"] = "select"]
            /\ chan' = [chan EXCEPT !["internal_progress"].senders = 1,
                                    !["internal_hash_progress"].senders = 1,
                                    !["progress"].senders = @ + 1]
    /\ UNCHANGED <<engine_vars, silent, worker, proxy, message_loop, output, sent, seen>>

\* load panics: the closure of the worker is unwound and everything it holds
\* is dropped, the processor with its senders included
ProcessLoadPanic ==
    /\ thread["process"] = "load"
    /\ thread' = [thread EXCEPT !["process"] = "panicked"]
    /\ chan' = [chan EXCEPT !["error"].senders = 0,
                            !["warning"].senders = 0,
                            !["progress"].senders = 0,
                            !["complete"].senders = 1]
    /\ UNCHANGED <<engine_vars, silent, worker, proxy, message_loop, output, sent, seen>>

\* process_file on a file that is not hashed: it returns at once, or after
\* handle_warning, or after handle_error
ProcessFileUnhashed(kind) ==
    /\ thread["process"] = "walk"
    /\ worker.done < worker.files
    /\ IF kind = "skip"
       THEN UNCHANGED <<chan, sent>>
       ELSE /\ chan' = send(chan, kind,
                            FileProcessEntry(CurrentFile,
                                IF kind = "error" THEN "IncorrectSize" ELSE "Extra"),
                            CurrentFile)
            /\ sent' = SentEvent
    /\ worker' = [worker EXCEPT !.done = @ + 1]
    /\ UNCHANGED <<engine_vars, silent, thread, proxy, message_loop, output, seen>>

\* process_file on a file that is hashed, up to the call of compute: the
\* start event goes to the proxy thread
ProcessFileStart(blocks) ==
    /\ thread["process"] = "walk"
    /\ worker.done < worker.files
    /\ thread' = [thread EXCEPT !["process"] = "compute"]
    /\ worker' = [worker EXCEPT !.blocks = blocks, !.notified = 0]
    /\ chan' = IF silent THEN chan
               ELSE send(chan, "internal_progress",
                         FileProgress(CurrentFile, SizeOf(blocks), 0), CurrentFile)
    /\ UNCHANGED <<engine_vars, silent, proxy, message_loop, output, sent, seen>>

\* compute: one notification of the bytes processed so far
ProcessHashProgress ==
    /\ thread["process"] = "compute"
    /\ worker.notified < worker.blocks
    /\ worker' = [worker EXCEPT !.notified = @ + 1]
    /\ chan' = IF silent THEN chan
               ELSE send(chan, "internal_hash_progress",
                         HashProgress(SizeOf(worker.notified + 1)), CurrentFile)
    /\ UNCHANGED <<engine_vars, silent, thread, proxy, message_loop, output, sent, seen>>

\* process_file from the return of compute on: the end event goes to the
\* proxy thread, and the digest may be found incorrect
ProcessFileEnd(incorrect) ==
    /\ thread["process"] = "compute"
    /\ worker.notified = worker.blocks
    /\ thread' = [thread EXCEPT !["process"] = "walk"]
    /\ worker' = [worker EXCEPT !.done = @ + 1, !.blocks = 0, !.notified = 0]
    /\ LET c == IF silent THEN chan
                ELSE send(chan, "internal_progress",
                          FileProgress(CurrentFile, SizeOf(worker.blocks),
                                       SizeOf(worker.blocks)), CurrentFile)
       IN  IF incorrect
           THEN /\ chan' = send(c, "error",
                                FileProcessEntry(CurrentFile, "IncorrectHash"),
                                CurrentFile)
                /\ sent' = SentEvent
           ELSE /\ chan' = c
                /\ sent' = sent
    /\ UNCHANGED <<engine_vars, silent, proxy, message_loop, output, seen>>

\* process_internal after traverse: the sender to the proxy thread is dropped
ProcessWalkReturn ==
    /\ thread["process"] = "walk"
    /\ worker.done = worker.files
    /\ thread' = [thread EXCEPT !["process"] = "join_proxy"]
    /\ chan' = IF silent THEN chan ELSE dropped(chan, "internal_progress", 1)
    /\ UNCHANGED <<engine_vars, silent, worker, proxy, message_loop, output, sent, seen>>

\* process_internal going on to its end without thread_handle.join()
ProcessJoinProxyDetached(missing, res) ==
    /\ thread["process"] = "join_proxy"
    /\ thread' = [thread EXCEPT !["process"] = "complete"]
    /\ missing => res = "Error"
    /\ worker' = [worker EXCEPT !.result = res]
    /\ IF missing
       THEN /\ chan' = send(chan, "error", FileProcessEntry(<<"m">>, "Missing"), <<"m">>)
            /\ sent' = SentEvent
       ELSE UNCHANGED <<chan, sent>>
    /\ UNCHANGED <<engine_vars, silent, proxy, message_loop, output, seen>>

\* process_internal: thread_handle.join(), then the end of the function, which
\* may report a file Missing
ProcessJoinProxy(missing, res) ==
    /\ thread["process"] = "join_proxy"
    /\ silent \/ thread["proxy"] = "done"
    /\ thread' = [thread EXCEPT !["process"] = "complete"]
    /\ missing => res = "Error"
    /\ worker' = [worker EXCEPT !.result = res]
    /\ IF missing
       THEN /\ chan' = send(chan, "error", FileProcessEntry(<<"m">>, "Missing"), <<"m">>)
            /\ sent' = SentEvent
       ELSE UNCHANGED <<chan, sent>>
    /\ UNCHANGED <<engine_vars, silent, proxy, message_loop, output, seen>>

\* process_with_cancellation_token: the completion event, if a sender is attached
ProcessComplete ==
    /\ thread["process"] = "complete"
    /\ thread' = [thread EXCEPT !["process"] = "drop"]
    /\ IF silent
       THEN UNCHANGED <<chan, sent>>
       ELSE /\ chan' = send(chan, "complete", worker.result, <<>>)
            /\ sent' = SentComplete
    /\ UNCHANGED <<engine_vars, silent, worker, proxy, message_loop, output, seen>>

\* the closure of the worker: drop(error_sender), drop(warning_sender),
\* drop(progress_sender)
ProcessDrop ==
    /\ thread["process"] = "drop"
    /\ thread' = [thread EXCEPT !["process"] = "end"]
    /\ chan' = dropped(dropped(dropped(chan, "error", 1), "warning", 1), "progress", 1)
    /\ UNCHANGED <<engine_vars, silent, worker, proxy, message_loop, output, sent, seen>>

\* the closure of the worker ends: the processor is dropped with the senders
\* that were attached to it
ProcessEnd ==
    /\ thread["process"] = "end"
    /\ thread' = [thread EXCEPT !["process"] = "done"]
    /\ chan' = LET c == dropped(dropped(chan, "error", 1), "warning", 1)
               IN  IF silent THEN c
                   ELSE [dropped(dropped(c, "progress", 1), "complete", 1)
                            EXCEPT !["internal_hash_progress"].senders = 0]
    /\ UNCHANGED <<engine_vars, silent, worker, proxy, message_loop, output, sent, seen>>

\* proxy thread, select!: a FileProgress of the worker is received, kept as
\* the current file and passed on
ProxyProgress ==
    /\ thread["proxy"] = "select"
    /\ ready("internal_progress")
    /\ LET m == Head(chan["internal_progress"].queue)
       IN  /\ proxy' = [current_file_path |-> m.msg.file_path,
                        current_file_size |-> m.msg.file_size]
           /\ chan' = send(taken(chan, "internal_progress"), "progress", m.msg, m.of)
           /\ seen' = seen \cup {[start |-> m.of]}
    /\ sent' = SentEvent
    /\ UNCHANGED <<engine_vars, silent, thread, worker, message_loop, output>>

\* proxy thread, select!: a HashProgress of the hasher is received and passed
\* on under the name of the current file
ProxyHashProgress ==
    /\ thread["proxy"] = "select"
    /\ ready("internal_hash_progress")
    /\ LET m == Head(chan["internal_hash_progress"].queue)
       IN  /\ chan' = send(taken(chan, "internal_hash_progress"), "progress",
                           FileProgress(proxy.current_file_path,
                                        proxy.current_file_size,
                                        m.msg.bytes_processed), m.of)
           /\ seen' = IF [start |-> m.of] \in seen THEN seen
                      ELSE seen \cup {[early |-> m.of]}
    /\ sent' = SentEvent
    /\ UNCHANGED <<engine_vars, silent, thread, worker, proxy, message_loop, output>>

\* a proxy thread that breaks only when the channel of the hasher is closed
\* as well
ProxyBreakBothClosed ==
    /\ thread["proxy"] = "select"
    /\ disconnected("internal_progress")
    /\ disconnected("internal_hash_progress")
    /\ thread' = [thread EXCEPT !["proxy"] = "done"]
    /\ chan' = dropped(chan, "progress", 1)
    /\ UNCHANGED <<engine_vars, silent, worker, proxy, message_loop, output, sent, seen>>

\* a proxy thread that breaks as soon as the sender of the worker is dropped
ProxyBreakUndrained ==
    /\ thread["proxy"] = "select"
    /\ chan["internal_progress"].senders = 0
    /\ thread' = [thread EXCEPT !["proxy"] = "done"]
    /\ chan' = dropped(chan, "progress", 1)
    /\ UNCHANGED <<engine_vars, silent, worker, proxy, message_loop, output, sent, seen>>

\* proxy thread, select!: the channel of the worker is closed: break; the
\* thread ends and its clone of the progress sender is dropped
ProxyBreak ==
    /\ thread["proxy"] = "select"
    /\ disconnected("internal_progress")
    /\ thread' = [thread EXCEPT !["proxy"] = "done"]
    /\ chan' = dropped(chan, "progress", 1)
    /\ UNCHANGED <<engine_vars, silent, worker, proxy, message_loop, output, sent, seen>>

\* a line written by Output
Line(kind, text) == [kind |-> kind, text |-> text]

\* message loop, select!: a FileProgress is received
LoopProgress ==
    /\ thread["message_loop"] = "select"
    /\ ready("progress")
    /\ LET args == Head(chan["progress"].queue).msg
           fp   == message_loop.file_progress
           next == IF args.bytes_processed = 0 THEN args
                   ELSE [fp EXCEPT !.bytes_processed = args.bytes_processed]
           processed == IF /\ args.bytes_processed = 0
                           /\ fp.file_path # <<>>
                           /\ ~message_loop.skip_processed
                        THEN <<Line("processed", fp.file_path)>>
                        ELSE <<>>
       IN  /\ message_loop' =
                 [message_loop EXCEPT
                    !.file_progress = next,
                    !.skip_processed = IF args.bytes_processed = 0 THEN FALSE ELSE @]
           /\ output' = output \o processed \o <<Line("progress", next)>>
    /\ chan' = taken(chan, "progress")
    /\ UNCHANGED <<engine_vars, silent, thread, worker, proxy, sent, seen>>

\* Output::write_error: the path is taken as text, to_str().unwrap(), and
\* the line is written; nothing is returned where the unwrap panics
write_error(out, file_process_entry) ==
    IF IsSome(to_str(file_process_entry.file_path))
    THEN Some(Append(out, Line("error", file_process_entry)))
    ELSE None

\* message loop, select!: an error or a warning is received; a panic of
\* write_error ends the thread
LoopAnomaly(name) ==
    /\ thread["message_loop"] = "select"
    /\ ready(name)
    /\ chan' = taken(chan, name)
    /\ LET written == write_error(output, Head(chan[name].queue).msg)
       IN  IF IsSome(written)
           THEN /\ message_loop' = [message_loop EXCEPT !.skip_processed = TRUE]
                /\ output' = Unwrap(written)
                /\ thread' = thread
           ELSE /\ thread' = [thread EXCEPT !["message_loop"] = "panicked"]
                /\ UNCHANGED <<message_loop, output>>
    /\ UNCHANGED <<engine_vars, silent, worker, proxy, sent, seen>>

\* message loop, select!: recv returns Err on a channel
LoopSenderDropped(name) ==
    /\ thread["message_loop"] = "select"
    /\ disconnected(name)
    /\ message_loop' =
          IF name = "progress" THEN [message_loop EXCEPT !.progress_sender_dropped = TRUE]
          ELSE IF name = "error" THEN [message_loop EXCEPT !.error_sender_dropped = TRUE]
          ELSE [message_loop EXCEPT !.warning_sender_dropped = TRUE]
    /\ message_loop' # message_loop
    /\ UNCHANGED <<engine_vars, silent, chan, thread, worker, proxy, output, sent, seen>>

\* message loop: senders_dropped ends the loop; the processed line of the
\* last file is written unless silent or skip_processed
LoopExit ==
    /\ thread["message_loop"] = "select"
    /\ message_loop.progress_sender_dropped
    /\ message_loop.error_sender_dropped
    /\ message_loop.warning_sender_dropped
    /\ thread' = [thread EXCEPT !["message_loop"] = "done"]
    /\ output' = IF ~silent /\ ~message_loop.skip_processed
                 THEN Append(output, Line("processed", message_loop.file_progress.file_path))
                 ELSE output
    /\ UNCHANGED <<engine_vars, silent, chan, worker, proxy, message_loop, sent, seen>>

\* main thread: message_loop.join().unwrap(), which panics if the message
\* loop panicked
MainJoinMessageLoop ==
    /\ thread["main"] = "join_message_loop"
    /\ thread["message_loop"] \in {"done", "panicked"}
    /\ thread' = [thread EXCEPT !["main"] = IF thread["message_loop"] = "panicked"
                                              THEN "panicked"
                                              ELSE IF silent THEN "drop" ELSE "recv"]
    /\ UNCHANGED <<engine_vars, silent, chan, worker, proxy, message_loop, output, sent,
                   seen>>

\* main thread: complete_receiver.recv() returns the result, which is written
\* unless it is Canceled; it cannot return Err, the main thread holding
\* complete_sender until the next statement
MainRecv ==
    /\ thread["main"] = "recv"
    /\ ready("complete")
    /\ LET res == Head(chan["complete"].queue).msg
       IN  output' = IF res = "Canceled" THEN Append(output, Line("clear_line", <<>>))
                     ELSE Append(output, Line("result", res))
    /\ chan' = taken(chan, "complete")
    /\ thread' = [thread EXCEPT !["main"] = "drop"]
    /\ UNCHANGED <<engine_vars, silent, worker, proxy, message_loop, sent, seen>>

\* main thread: drop(complete_sender)
MainDrop ==
    /\ thread["main"] = "drop"
    /\ thread' = [thread EXCEPT !["main"] = "join_process"]
    /\ chan' = dropped(chan, "complete", 1)
    /\ UNCHANGED <<engine_vars, silent, worker, proxy, message_loop, output, sent, seen>>

\* main thread: process.join().unwrap() returns the result of the worker, or
\* panics if the worker panicked
MainJoinProcess ==
    /\ thread["main"] = "join_process"
    /\ thread["process"] \in {"done", "panicked"}
    /\ thread' = [thread EXCEPT !["main"] = IF thread["process"] = "done"
                                              THEN "returned" ELSE "panicked"]
    /\ UNCHANGED <<engine_vars, silent, chan, worker, proxy, message_loop, output, sent,
                   seen>>

ProcessThread ==
    \/ ProcessLoad
    \/ ProcessLoadPanic
    \/ \E kind \in {"skip", "warning", "error"} : ProcessFileUnhashed(kind)
    \/ \E blocks \in 0..MaxBlocks : ProcessFileStart(blocks)
    \/ ProcessHashProgress
    \/ \E incorrect \in BOOLEAN : ProcessFileEnd(incorrect)
    \/ ProcessWalkReturn
    \/ \E missing \in BOOLEAN, res \in HashFileProcessResult : ProcessJoinProxy(missing, res)
    \/ ProcessComplete
    \/ ProcessDrop
    \/ ProcessEnd

ProxyThread == ProxyProgress \/ ProxyHashProgress \/ ProxyBreak

MessageLoopThread ==
    \/ LoopProgress
    \/ \E name \in {"error", "warning"} : LoopAnomaly(name)
    \/ \E name \in {"progress", "error", "warning"} : LoopSenderDropped(name)
    \/ LoopExit

MainThread == MainJoinMessageLoop \/ MainRecv \/ MainDrop \/ MainJoinProcess

NextUI == ProcessThread \/ ProxyThread \/ MessageLoopThread \/ MainThread

\* every thread that can take a step eventually takes one
SpecUI ==
    /\ InitUI
    /\ [][NextUI]_vars
    /\ WF_vars(ProcessThread)
    /\ WF_vars(ProxyThread)
    /\ WF_vars(MessageLoopThread)
    /\ WF_vars(MainThread)


(***************************************************************************)
(* Properties of UI::run                                                   *)
(***************************************************************************)
\* the call of process_with_cancellation_token has returned
CallReturned == thread["process"] \in {"drop", "end", "done"}

\* positions of the result line in the output
ResultLines == {i \in DOMAIN output : output[i].kind = "result"}

\* nothing is sent after the completion event, which is sent at most once
CompletionLast == sent.complete <= 1 /\ sent.after = 0

\* the result line is written when the message loop has ended with nothing
\* left in its channels, and nothing is written after it
ResultLineLast ==
    \A i \in ResultLines :
        /\ thread["message_loop"] = "done"
        /\ \A name \in {"progress", "warning", "error"} : chan[name].queue = <<>>
        /\ i = Len(output)

C16_StartBeforeProgress ==
    \A i \in DOMAIN UIFiles : [early |-> UIFiles[i]] \notin seen

\* C17: once the worker thread has finished, UI::run returns
C17_UITermination ==
    (thread["process"] \in {"done", "panicked"}) ~> (thread["main"] = "returned")

\* once the worker thread has returned from its closure, UI::run returns
UITerminationUnpanicked ==
    (thread["process"] = "done") ~> (thread["main"] = "returned")

\* whatever became of the worker thread, the message loop ends
MessageLoopEnds == <>(thread["message_loop"] = "done")

\* the message loop has ended and wrote what it received
LoopDone == thread["message_loop"] = "done" /\ ~silent

\* positions in output of the processed line, the error lines and the
\* progress lines of the file f
ProcessedLines(f) ==
    {i \in DOMAIN output : output[i].kind = "processed" /\ output[i].text = f}

AnomalyLines(f) ==
    {i \in DOMAIN output : output[i].kind = "error" /\ output[i].text.file_path = f}

ProgressLines(f) ==
    {i \in DOMAIN output : output[i].kind = "progress" /\ output[i].text.file_path = f}

\* C33: in the message loop an error or warning for the file X suppresses
\* the processed line of X and of no other file, and every file that was
\* hashed without any anomaly gets its processed line, under every
\* interleaving of the channels and also when the anomaly belongs to a file
\* that produced no progress event
C33_SuppressionPerFile ==
    LoopDone =>
        \A k \in DOMAIN UIFiles :
            LET f == UIFiles[k]
            IN  /\ AnomalyLines(f) # {} => ProcessedLines(f) = {}
                /\ (ProgressLines(f) # {} /\ AnomalyLines(f) = {}) => ProcessedLines(f) # {}

\* the events republished by the proxy thread and not yet received
Republished == chan["progress"].queue

\* C35: every event republished by the proxy thread carries the path of the
\* file on which its byte count was measured, and between two consecutive
\* start events the bytes_processed values of the stream are non-decreasing,
\* under every interleaving of the walk-level and hash-level channels
C35_UnifiedStream ==
    thread["proxy"] # "none" =>
        /\ \A i \in DOMAIN Republished : Republished[i].msg.file_path = Republished[i].of
        /\ \A i, j \in DOMAIN Republished :
              (i < j /\ \A k \in (i + 1)..j : Republished[k].msg.bytes_processed # 0) =>
                  Republished[i].msg.bytes_processed <= Republished[j].msg.bytes_processed


\* the events of the worker and of the hasher the proxy thread has yet to take
WalkLevel == chan["internal_progress"].queue

HashLevel == chan["internal_hash_progress"].queue

ProxyExited == thread["proxy"] = "done"

\* the proxy thread is out of its loop only with the channel of the worker
\* closed and empty
DrainedBeforeExit ==
    ProxyExited => WalkLevel = <<>> /\ chan["internal_progress"].senders = 0

\* q grows by one message at its end
Grown(q, r) == Len(r) = Len(q) + 1 /\ SubSeq(r, 1, Len(q)) = q

\* an event of the worker leaves its channel only at the head, by being put
\* unchanged at the end of the progress channel while the proxy thread runs
WalkLevelForwarded ==
    \/ WalkLevel' = WalkLevel
    \/ Grown(WalkLevel, WalkLevel')
    \/ /\ WalkLevel # <<>>
       /\ WalkLevel' = Tail(WalkLevel)
       /\ Republished' = Append(Republished, Head(WalkLevel))
       /\ ~ProxyExited /\ ~ProxyExited'

\* an event of the hasher leaves its channel only at the head, and one event
\* with its byte count is put at the end of the progress channel
HashLevelForwarded ==
    \/ HashLevel' = HashLevel
    \/ Grown(HashLevel, HashLevel')
    \/ /\ HashLevel # <<>>
       /\ HashLevel' = Tail(HashLevel)
       /\ Grown(Republished, Republished')
       /\ Republished'[Len(Republished')].msg.bytes_processed
             = Head(HashLevel).msg.bytes_processed
       /\ Republished'[Len(Republished')].of = Head(HashLevel).of

\* C36: every start and end event sent by the worker is republished on the
\* progress channel exactly once and in the order sent before the proxy
\* thread exits, the proxy thread exits only after the channel of the worker
\* is closed and drained, and an event of the hasher is republished at most
\* once
C36_ProxyForwarding ==
    [](DrainedBeforeExit) /\ [][WalkLevelForwarded /\ HashLevelForwarded]_vars

\* the proxy thread has exited after the worker went through two files
C36_Witness ==
    /\ ~silent
    /\ ProxyExited
    /\ worker.done = MaxUIFiles
    /\ Republished # <<>>


\* traverse has returned and the sender to the proxy thread is dropped
WalkReturned == thread["process"] = "join_proxy"

\* process_internal has returned a result
InternalReturned ==
    /\ thread["process"] \in {"complete", "drop", "end", "done"}
    /\ worker.result \in HashFileProcessResult

\* the places where the worker thread goes on without waiting for anyone
NeverWaits ==
    thread["process"] \in {"load", "walk", "compute", "complete", "drop", "end"} =>
        ENABLED ProcessThread

\* C37: after the walk has returned and the worker has dropped its sender,
\* the proxy thread leaves its loop whatever events of the hasher are still
\* queued, the join completes and process_internal returns a result; at every
\* other point the worker goes on without waiting for a consumer
C37_EngineTermination ==
    /\ WalkReturned ~> (InternalReturned /\ (silent \/ ProxyExited))
    /\ [](NeverWaits)

\* process_internal has returned while an event of the hasher is still queued
\* and the sender of the hasher is still alive
C37_Witness ==
    /\ ~silent
    /\ InternalReturned
    /\ ProxyExited
    /\ HashLevel # <<>>
    /\ chan["internal_hash_progress"].senders > 0



(***************************************************************************)
(* The message loop alone: it receives what the engine can send, error and *)
(* warning events of every kind and start events, until the senders are    *)
(* dropped                                                                 *)
(***************************************************************************)
MaxEmitted == 2

\* the events of the engine: an error or a warning names a relative path
\* that is text, but InvalidUnicodeFileName, which carries the path that
\* to_str refused
EngineEvents ==
    {[name |-> "error", msg |-> FileProcessEntry(<<"a">>, state)] :
        state \in {"IncorrectSize", "IncorrectHash", "Missing", "Error"}}
    \cup {[name |-> "warning", msg |-> FileProcessEntry(<<"a">>, "Extra")],
          [name |-> "warning",
           msg |-> FileProcessEntry(Join(<<"b", InvalidByte>>), "InvalidUnicodeFileName")],
          [name |-> "progress", msg |-> FileProgress(<<"a">>, 0, 0)]}

InitLoop ==
    /\ disk \in {[p \in AllPaths |-> NoFile]}
    /\ work_path_is_file = FALSE
    /\ bin_in_base_path = FALSE
    /\ Fresh
    /\ manifest_at_start = NoFile
    /\ prev = NoRun
    /\ runs = 0
    /\ tampers = 0
    /\ budget = 0
    /\ silent = FALSE
    /\ chan = [c \in Channels |->
                 IF c \in {"error", "warning", "progress"} THEN Channel(1)
                 ELSE Channel(0)]
    /\ thread = [t \in Threads |->
                   IF t = "main" THEN "join_message_loop"
                   ELSE IF t = "message_loop" THEN "select"
                   ELSE IF t = "process" THEN "walk"
                   ELSE "none"]
    /\ worker = [files |-> MaxEmitted, done |-> 0, blocks |-> 0, notified |-> 0,
                 result |-> "None"]
    /\ proxy = [current_file_path |-> <<>>, current_file_size |-> 0]
    /\ message_loop = [error_sender_dropped |-> FALSE,
                       warning_sender_dropped |-> FALSE,
                       progress_sender_dropped |-> FALSE,
                       skip_processed |-> FALSE,
                       file_progress |-> FileProgress(<<>>, 0, 0)]
    /\ output = <<>>
    /\ sent = [complete |-> 0, after |-> 0]
    /\ seen = {}

\* the engine sends an event; send(..).unwrap() panics once the message loop
\* is gone with its receivers
EngineEmit(e) ==
    /\ thread["process"] = "walk"
    /\ worker.done < worker.files
    /\ IF thread["message_loop"] = "panicked"
       THEN /\ thread' = [thread EXCEPT !["process"] = "panicked"]
            /\ chan' = [c \in Channels |-> [chan[c] EXCEPT !.senders = 0]]
            /\ UNCHANGED <<worker, sent>>
       ELSE /\ chan' = send(chan, e.name, e.msg, e.msg.file_path)
            /\ worker' = [worker EXCEPT !.done = @ + 1]
            /\ sent' = SentEvent
            /\ thread' = thread
    /\ UNCHANGED <<engine_vars, silent, proxy, message_loop, output, seen>>

\* the engine is done and its senders are dropped
EngineDrop ==
    /\ thread["process"] = "walk"
    /\ thread' = [thread EXCEPT !["process"] = "done"]
    /\ chan' = [c \in Channels |-> [chan[c] EXCEPT !.senders = 0]]
    /\ UNCHANGED <<engine_vars, silent, worker, proxy, message_loop, output, sent, seen>>

NextLoop ==
    \/ \E e \in EngineEvents : EngineEmit(e)
    \/ EngineDrop
    \/ LoopProgress
    \/ \E name \in {"error", "warning"} : LoopAnomaly(name)
    \/ \E name \in {"progress", "error", "warning"} : LoopSenderDropped(name)
    \/ LoopExit

SpecLoop == InitLoop /\ [][NextLoop]_vars

\* the message loop has aborted
LoopAborted == thread["message_loop"] = "panicked"

\* C40: the message loop renders every error and warning the engine can
\* send, InvalidUnicodeFileName with its path that is not valid Unicode
\* included, and keeps running until all senders are dropped: it never aborts
C40_LoopNeverAborts == ~LoopAborted

\* the message loop aborts on no event but InvalidUnicodeFileName
AbortsOnInvalidUnicodeOnly ==
    [][LoopAborted' /\ ~LoopAborted =>
          \E name \in {"error", "warning"} :
              /\ ready(name)
              /\ Head(chan[name].queue).msg.state = "InvalidUnicodeFileName"]_vars

====
